---- MODULE Spec2Model ----
(***************************************************************************)
(* Semantic search and AI news aggregation of the social feed backend:     *)
(*   services/embeddingService.ts  (cosineSimilarity)                      *)
(*   services/aiService.ts         (searchNews and its parser)             *)
(*   controllers/searchController.ts (searchPosts, searchUsers)            *)
(***************************************************************************)
EXTENDS Integers, Sequences, FiniteSets, TLC

VARIABLES
    vecA, vecB, cosOut,          \* arguments and outcome of one cosineSimilarity call
    posts, users,                \* the Post and User collections (documents in insertion order)
    history,                     \* the SearchHistory collection (append only)
    res,                         \* the last response an entity search sent
    newsIn, newsOut,             \* provider payload and outcome of one searchNews call
    textIn, textOut,             \* arguments and outcome of one call of a text function
    calls                        \* the requests issued to the providers, in order

vars == <<vecA, vecB, cosOut, posts, users, history, res, newsIn, newsOut,
          textIn, textOut, calls>>

(***************************************************************************)
(* JavaScript numbers.  A number is an IEEE-754 double; the model keeps    *)
(* the doubles of the form m * 2^e with a small integer m and an exponent  *)
(* e that is a multiple of ExpStep, together with +-Infinity and NaN.      *)
(* On these operands every product and every sum below is the exact IEEE   *)
(* result: exponents differ by at least ExpStep > 53 bits, so a sum        *)
(* absorbs the smaller operand, a product beyond 2^MaxExp overflows to     *)
(* Infinity and a product below 2^MinExp underflows to 0.  The sign of a   *)
(* zero is not kept (no operation of the program tells -0 from +0).        *)
(*   k = "fin": the value m * 2^e      k = "inf": m is the sign (1 or -1)  *)
(*   k = "nan": NaN                                                        *)
(***************************************************************************)
MaxExp == 1023
MinExp == -1074
MantBits == 53
ExpStep == 600

Fin(m, e) == [k |-> "fin", m |-> m, e |-> IF m = 0 THEN 0 ELSE e]
Zero == Fin(0, 0)
Inf(s) == [k |-> "inf", m |-> s, e |-> 0]
NaN == [k |-> "nan", m |-> 0, e |-> 0]

Sgn(n) == IF n > 0 THEN 1 ELSE IF n < 0 THEN -1 ELSE 0

\* x * y on doubles
Mul(x, y) ==
    IF x.k = "nan" \/ y.k = "nan" THEN NaN
    ELSE IF x.k = "inf" \/ y.k = "inf"
         THEN IF x.m = 0 \/ y.m = 0 THEN NaN          \* Infinity * 0
              ELSE Inf(Sgn(x.m) * Sgn(y.m))
    ELSE IF x.m * y.m = 0 THEN Zero
    ELSE IF x.e + y.e > MaxExp THEN Inf(Sgn(x.m) * Sgn(y.m))
    ELSE IF x.e + y.e < MinExp - MantBits THEN Zero
    ELSE Fin(x.m * y.m, x.e + y.e)

\* x + y on doubles
Add(x, y) ==
    IF x.k = "nan" \/ y.k = "nan" THEN NaN
    ELSE IF x.k = "inf" /\ y.k = "inf" THEN (IF x.m = y.m THEN x ELSE NaN)
    ELSE IF x.k = "inf" THEN x
    ELSE IF y.k = "inf" THEN y
    ELSE IF x.m = 0 THEN y
    ELSE IF y.m = 0 THEN x
    ELSE IF x.e = y.e THEN Fin(x.m + y.m, x.e)
    ELSE IF x.e > y.e THEN x
    ELSE y

(***************************************************************************)
(* The value cosineSimilarity returns.  Math.sqrt and the final division   *)
(* round; the model keeps the quotient unevaluated and compares it as a    *)
(* real number:                                                            *)
(*   k = "q":   m * 2^e / (sqrt(na) * sqrt(nb)),  na, nb > 0               *)
(*   k = "inf": +-Infinity (m the sign)      k = "nan": NaN                *)
(***************************************************************************)
SimQ(m, e, na, nb) ==
    [k |-> "q", m |-> m, e |-> IF m = 0 THEN 0 ELSE e,
     na |-> IF m = 0 THEN 1 ELSE na, nb |-> IF m = 0 THEN 1 ELSE nb]
SimZero == SimQ(0, 0, 1, 1)
SimInf(s) == [k |-> "inf", m |-> s, e |-> 0, na |-> 1, nb |-> 1]
SimNaN == [k |-> "nan", m |-> 0, e |-> 0, na |-> 1, nb |-> 1]

\* An outcome is a thrown Error or a returned value.  An Error message is
\* the sequence of the fragments it is concatenated from.
Thrown(msg) == [t |-> "throw", msg |-> msg, v |-> SimNaN]
Returned(v) == [t |-> "return", msg |-> <<>>, v |-> v]

DimensionMismatch == <<"Vectors must have the same length">>

\* the loop of cosineSimilarity: acc = <<dotProduct, normA, normB>> after i-1 rounds
RECURSIVE CosLoop(_, _, _, _)
CosLoop(a, b, i, acc) ==
    IF i > Len(a) THEN acc
    ELSE CosLoop(a, b, i + 1,
                 << Add(acc[1], Mul(a[i], b[i])),
                    Add(acc[2], Mul(a[i], a[i])),
                    Add(acc[3], Mul(b[i], b[i])) >>)

\* dotProduct / (Math.sqrt(normA) * Math.sqrt(normB)), after the zero test
\* (sa, sb are the sums of squares: never negative, never NaN)
CosQuotient(dot, sa, sb) ==
    IF sa.k = "inf" \/ sb.k = "inf"
    THEN (IF dot.k = "fin" THEN SimZero ELSE SimNaN)     \* x / Infinity
    ELSE IF dot.k = "nan" THEN SimNaN
    ELSE IF dot.k = "inf" THEN SimInf(dot.m)
    ELSE SimQ(dot.m, dot.e - (sa.e + sb.e) \div 2, sa.m, sb.m)

\* cosineSimilarity without its length check (the loop runs over vecA)
cosineSimilarityUnchecked(a, b) ==
    LET acc == CosLoop(a, [i \in 1..Len(a) |-> IF i <= Len(b) THEN b[i] ELSE NaN],
                       1, <<Zero, Zero, Zero>>)
    IN  IF acc[2] = Zero \/ acc[3] = Zero
        THEN Returned(SimZero)
        ELSE Returned(CosQuotient(acc[1], acc[2], acc[3]))

\* cosineSimilarity without its test for a zero norm: 0 / 0
cosineSimilarityNoZeroTest(a, b) ==
    IF Len(a) # Len(b) THEN Thrown(DimensionMismatch)
    ELSE LET acc == CosLoop(a, b, 1, <<Zero, Zero, Zero>>)
         IN  IF acc[2] = Zero \/ acc[3] = Zero
             THEN Returned(SimNaN)
             ELSE Returned(CosQuotient(acc[1], acc[2], acc[3]))

cosineSimilarity(a, b) ==
    IF Len(a) # Len(b) THEN Thrown(DimensionMismatch)
    ELSE LET acc == CosLoop(a, b, 1, <<Zero, Zero, Zero>>)
         IN  IF acc[2] = Zero \/ acc[3] = Zero
             THEN Returned(SimZero)
             ELSE Returned(CosQuotient(acc[1], acc[2], acc[3]))

(***************************************************************************)
(* Values that mark "no call made yet" / "no response sent yet".           *)
(***************************************************************************)
NotCalled == [t |-> "none", msg |-> <<>>, v |-> SimNaN]

(***************************************************************************)
(* Bounded inputs of cosineSimilarity: vectors of up to MaxDim components, *)
(* each 0, 1, 2, -1, a tiny double (2^-ExpStep) or a huge one (2^ExpStep). *)
(***************************************************************************)
MaxDim == 2

Tiny == Fin(1, 0 - ExpStep)
Huge == Fin(1, ExpStep)
Components == {Zero, Fin(1, 0), Fin(2, 0), Fin(-1, 0), Tiny, Huge}
Vectors == UNION {[1..n -> Components] : n \in 0..MaxDim}

IsZeroVector(v) == \A i \in 1..Len(v) : v[i] = Zero

\* the similarity is the real number 1
IsOne(s) == s.k = "q" /\ s.e = 0 /\ s.m > 0 /\ s.m * s.m = s.na * s.nb

(***************************************************************************)
(* Comparison of similarity values as JavaScript compares numbers.         *)
(***************************************************************************)
\* |x| against |y| for two nonzero quotients: -1, 0 or 1
MagnitudeCompare(x, y) ==
    IF x.e # y.e THEN (IF x.e > y.e THEN 1 ELSE -1)
    ELSE Sgn(x.m * x.m * y.na * y.nb - y.m * y.m * x.na * x.nb)

\* x against y: -1 (x < y), 0 (x = y), 1 (x > y), 2 (unordered: a NaN operand)
SimCompare(x, y) ==
    IF x.k = "nan" \/ y.k = "nan" THEN 2
    ELSE IF x.k = "inf" \/ y.k = "inf"
         THEN Sgn((IF x.k = "inf" THEN 2 * x.m ELSE Sgn(x.m))
                  - (IF y.k = "inf" THEN 2 * y.m ELSE Sgn(y.m)))
    ELSE IF Sgn(x.m) # Sgn(y.m) THEN Sgn(Sgn(x.m) - Sgn(y.m))
    ELSE IF x.m = 0 THEN 0
    ELSE Sgn(x.m) * MagnitudeCompare(x, y)

\* x >= y
GreaterOrEqual(x, y) == SimCompare(x, y) \in {0, 1}

\* the number n / d (d > 0) of a request body
Rat(n, d) == SimQ(n, 0, d * d, 1)

(***************************************************************************)
(* Strings are sequences of characters.                                    *)
(***************************************************************************)
\* white space and line terminators (\s of a regular expression, and what
\* trim removes); U00A0 is the no-break space
U00A0 == "U00A0"
IsSpace(c) == c \in {" ", "\t", "\n", "\r", U00A0}

RECURSIVE TrimStart(_)
TrimStart(s) == IF s # <<>> /\ IsSpace(Head(s)) THEN TrimStart(Tail(s)) ELSE s

RECURSIVE TrimEnd(_)
TrimEnd(s) ==
    IF s # <<>> /\ IsSpace(s[Len(s)]) THEN TrimEnd(SubSeq(s, 1, Len(s) - 1)) ELSE s

\* String.prototype.trim
Trim(s) == TrimEnd(TrimStart(s))

(***************************************************************************)
(* Documents.  A stored embedding is null or an array of numbers.          *)
(***************************************************************************)
NullEmbedding == [isNull |-> TRUE, v |-> <<>>]
Embedding(v) == [isNull |-> FALSE, v |-> v]

Doc(id, emb) == [id |-> id, embedding |-> emb]

\* ids are assigned in insertion order
Collection(embs) == [i \in 1..Len(embs) |-> Doc(i, embs[i])]

FetchLimit == 100

\* Model.find({ embedding: { $exists: true, $ne: null } }).limit(100)
FindWithEmbedding(coll) ==
    LET found == SelectSeq(coll, LAMBDA d : ~d.embedding.isNull)
    IN  SubSeq(found, 1, IF Len(found) < FetchLimit THEN Len(found) ELSE FetchLimit)

(***************************************************************************)
(* generateEmbedding(text).  env is what the call meets: whether an API    *)
(* key is configured, and the provider's reply (a failure or a vector).    *)
(***************************************************************************)
MaxEmbedText == 8000

Env(key, ok, v) == [key |-> key, ok |-> ok, v |-> v]

generateEmbedding(text, env) ==
    IF ~env.key
    THEN Thrown(<<"Failed to generate embedding: ", "OpenAI API key not configured">>)
    ELSE IF Len(text) = 0 \/ Len(Trim(text)) = 0
    THEN Thrown(<<"Failed to generate embedding: ",
                  "Text is required for embedding generation">>)
    ELSE LET cleanedText == SubSeq(Trim(text), 1,
                 IF Len(Trim(text)) < MaxEmbedText THEN Len(Trim(text)) ELSE MaxEmbedText)
         IN  IF ~env.ok
             THEN Thrown(<<"Failed to generate embedding: ", "provider error">>)
             ELSE Returned(env.v)

\* a request to a provider: the endpoint and the text sent
ProviderRequest(endpoint, input) == [endpoint |-> endpoint, input |-> input]

\* the requests generateEmbedding(text) issues: one, once the key and the
\* text have passed their tests
generateEmbeddingRequestsUnchecked(text, env) ==
    IF ~env.key THEN <<>>
    ELSE <<ProviderRequest("embeddings.create",
               SubSeq(Trim(text), 1,
                   IF Len(Trim(text)) < MaxEmbedText THEN Len(Trim(text)) ELSE MaxEmbedText))>>

generateEmbeddingRequests(text, env) ==
    IF ~env.key \/ Len(text) = 0 \/ Len(Trim(text)) = 0 THEN <<>>
    ELSE <<ProviderRequest("embeddings.create",
               SubSeq(Trim(text), 1,
                   IF Len(Trim(text)) < MaxEmbedText THEN Len(Trim(text)) ELSE MaxEmbedText))>>

(***************************************************************************)
(* The ranking pipeline of searchPosts / searchUsers:                      *)
(*   map (score) -> filter (threshold) -> sort -> slice (limit)            *)
(***************************************************************************)
\* a test that lets an empty embedding through
HasVectorNullOnly(d) == ~d.embedding.isNull

\* !(!doc.embedding || doc.embedding.length === 0)
HasVector(d) == ~d.embedding.isNull /\ Len(d.embedding.v) # 0

Scored(id, similarity) == [isNull |-> FALSE, id |-> id, similarity |-> similarity]
NullEntry == [isNull |-> TRUE, id |-> 0, similarity |-> SimNaN]

\* the callback of the first .map: null for a document without a vector
ScoreOne(d, queryEmbedding) ==
    IF ~HasVector(d) THEN NullEntry
    ELSE Scored(d.id, cosineSimilarity(queryEmbedding, d.embedding.v).v)

\* the first .map as a whole: an exception of the callback ends it
ScoreAll(cands, queryEmbedding) ==
    IF \E i \in 1..Len(cands) :
          HasVector(cands[i])
          /\ cosineSimilarity(queryEmbedding, cands[i].embedding.v).t = "throw"
    THEN LET i == CHOOSE j \in 1..Len(cands) :
                    /\ HasVector(cands[j])
                    /\ cosineSimilarity(queryEmbedding, cands[j].embedding.v).t = "throw"
                    /\ \A h \in 1..(j - 1) :
                          HasVector(cands[h]) =>
                            cosineSimilarity(queryEmbedding, cands[h].embedding.v).t # "throw"
         IN  Thrown(cosineSimilarity(queryEmbedding, cands[i].embedding.v).msg)
    ELSE Returned([i \in 1..Len(cands) |-> ScoreOne(cands[i], queryEmbedding)])

\* a filter that wants the similarity above the threshold
PassesThresholdStrict(entry, threshold) ==
    ~entry.isNull /\ SimCompare(entry.similarity, threshold) = 1

\* .filter(result => result !== null && result.similarity >= threshold)
PassesThreshold(entry, threshold) ==
    ~entry.isNull /\ GreaterOrEqual(entry.similarity, threshold)

FilterByThreshold(entries, threshold) ==
    SelectSeq(entries, LAMBDA x : PassesThreshold(x, threshold))

\* the comparator (a, b) => b.similarity - a.similarity: its sign, 0 for NaN
SortCompare(a, b) ==
    LET c == SimCompare(b.similarity, a.similarity) IN IF c = 2 THEN 0 ELSE c

\* x placed into an already sorted run, behind every element it does not precede
RECURSIVE InsertStable(_, _)
InsertStable(sorted, x) ==
    IF sorted = <<>> THEN <<x>>
    ELSE IF SortCompare(Head(sorted), x) > 0
         THEN <<x>> \o sorted
         ELSE <<Head(sorted)>> \o InsertStable(Tail(sorted), x)

\* a sort that puts an element in front of its equals
RECURSIVE InsertUnstable(_, _)
InsertUnstable(sorted, x) ==
    IF sorted = <<>> THEN <<x>>
    ELSE IF SortCompare(Head(sorted), x) >= 0
         THEN <<x>> \o sorted
         ELSE <<Head(sorted)>> \o InsertUnstable(Tail(sorted), x)

RECURSIVE SortUnstable(_, _)
SortUnstable(done, todo) ==
    IF todo = <<>> THEN done
    ELSE SortUnstable(InsertUnstable(done, Head(todo)), Tail(todo))

SortBySimilarityUnstable(entries) == SortUnstable(<<>>, entries)

RECURSIVE SortStable(_, _)
SortStable(done, todo) ==
    IF todo = <<>> THEN done
    ELSE SortStable(InsertStable(done, Head(todo)), Tail(todo))

\* Array.prototype.sort with the comparator above (a stable sort)
SortBySimilarity(entries) == SortStable(<<>>, entries)

\* a slice that keeps one element too many
SliceToOneMore(s, limit) == SubSeq(s, 1, IF limit + 1 > Len(s) THEN Len(s) ELSE limit + 1)

\* Array.prototype.slice(0, limit)
SliceTo(s, limit) ==
    LET end == IF limit < 0
               THEN (IF Len(s) + limit < 0 THEN 0 ELSE Len(s) + limit)
               ELSE (IF limit > Len(s) THEN Len(s) ELSE limit)
    IN  SubSeq(s, 1, end)

\* the last .map: the document's payload (its id here) with the similarity
Present(entries) ==
    [i \in 1..Len(entries) |-> [id |-> entries[i].id, similarity |-> entries[i].similarity]]

\* the chain after the first .map
RankScored(entries, threshold, limit) ==
    Present(SliceTo(SortBySimilarity(FilterByThreshold(entries, threshold)), limit))

(***************************************************************************)
(* Requests and responses of the entity search handlers.                   *)
(***************************************************************************)
NoUser == "none"
Absent == [def |-> FALSE, n |-> 0, v |-> SimNaN]      \* a body field that is undefined
Num(n) == [def |-> TRUE, n |-> n, v |-> SimNaN]       \* an integer body field
Real(v) == [def |-> TRUE, n |-> 0, v |-> v]           \* a fractional body field

Request(userId, isString, query, limit, threshold) ==
    [userId |-> userId, isString |-> isString, query |-> query,
     limit |-> limit, threshold |-> threshold]

DefaultLimit == 10
DefaultThreshold == Rat(7, 10)

\* const { query, limit = 10, threshold = 0.7 } = req.body
LimitOf(req) == IF req.limit.def THEN req.limit.n ELSE DefaultLimit
ThresholdOf(req) == IF req.threshold.def THEN req.threshold.v ELSE DefaultThreshold

\* !query || typeof query !== 'string' || query.trim().length === 0
QueryMissing(req) == ~req.isString \/ Len(req.query) = 0 \/ Len(Trim(req.query)) = 0

NoEnv == Env(FALSE, FALSE, <<>>)

\* what generateEmbedding can meet: no key, a provider failure, a vector
V(x, y) == <<Fin(x, 0), Fin(y, 0)>>
Envs ==
    {Env(FALSE, FALSE, <<>>), Env(TRUE, FALSE, <<>>),
     Env(TRUE, TRUE, V(1, 0)), Env(TRUE, TRUE, V(1, 1))}

\* one handled request: what came in, what the handler met, what it answered
Exchange(op, req, env, fetched, status, error, query, results) ==
    [op |-> op, req |-> req, env |-> env, fetched |-> fetched,
     status |-> status, error |-> error, query |-> query,
     count |-> Len(results), results |-> results]

Failure(op, req, env, fetched, status, error) ==
    Exchange(op, req, env, fetched, status, error, <<>>, <<>>)

NoExchange == Failure("none", Request(NoUser, FALSE, <<>>, Absent, Absent), NoEnv, <<>>, 0, <<>>)

\* the handler up to its response, for either collection; env is read only
\* once the request has passed the two checks
SearchOutcome(op, coll, req, env) ==
    IF req.userId = NoUser
    THEN Failure(op, req, NoEnv, <<>>, 401, <<"Unauthorized">>)
    ELSE IF QueryMissing(req)
    THEN Failure(op, req, NoEnv, <<>>, 400, <<"Search query is required">>)
    ELSE LET queryEmbedding == generateEmbedding(Trim(req.query), env)
         IN  IF queryEmbedding.t = "throw"
             THEN Failure(op, req, env, <<>>, 500, queryEmbedding.msg)
             ELSE LET fetched == FindWithEmbedding(coll)
                      scored == ScoreAll(fetched, queryEmbedding.v)
                  IN  IF scored.t = "throw"
                      THEN Failure(op, req, env, fetched, 500, scored.msg)
                      ELSE Exchange(op, req, env, fetched, 200, <<>>, Trim(req.query),
                                    RankScored(scored.v, ThresholdOf(req), LimitOf(req)))

\* the provider requests a handler issues: those of its generateEmbedding
SearchRequestsIssued(req, env) ==
    IF req.userId = NoUser \/ QueryMissing(req) THEN <<>>
    ELSE generateEmbeddingRequests(Trim(req.query), env)

HistoryEntry(userId, query, results) ==
    [userId |-> userId, query |-> query, results |-> results]

\* POST /search/posts
searchPosts(req, env) ==
    /\ res = NoExchange
    /\ LET out == SearchOutcome("posts", posts, req, env)
       IN  /\ res' = out
           /\ history' = IF out.status = 200
                         THEN Append(history,
                                     HistoryEntry(req.userId, out.query,
                                         [i \in 1..Len(out.results) |->
                                             [postId |-> out.results[i].id,
                                              similarity |-> out.results[i].similarity]]))
                         ELSE history
    /\ calls' = calls \o SearchRequestsIssued(req, env)
    /\ UNCHANGED <<posts, users, vecA, vecB, cosOut, newsIn, newsOut, textIn, textOut>>

\* POST /search/users
searchUsers(req, env) ==
    /\ res = NoExchange
    /\ res' = SearchOutcome("users", users, req, env)
    /\ calls' = calls \o SearchRequestsIssued(req, env)
    /\ UNCHANGED <<posts, users, history, vecA, vecB, cosOut, newsIn, newsOut, textIn, textOut>>

(***************************************************************************)
(* JSON text.  The provider's output text is a sequence of characters; a   *)
(* character outside the ASCII letters, digits and punctuation is written  *)
(* by name (U0001 is the control character U+0001).                        *)
(*                                                                         *)
(* A parsed value is one of                                                *)
(*   [t |-> "obj", keys |-> <<k1, ..>>, vals |-> <<v1, ..>>]               *)
(*   [t |-> "arr", items |-> <<v1, ..>>]      [t |-> "str", s |-> chars]   *)
(*   [t |-> "num", n |-> n]   [t |-> "bool", b |-> b]   [t |-> "null"]     *)
(* and [t |-> "undefined"] is the value of a property that is not there.   *)
(***************************************************************************)
U0001 == "U0001"
Digits == <<"0", "1", "2", "3", "4", "5", "6", "7", "8", "9">>
IsDigit(c) == \E i \in 1..10 : Digits[i] = c
DigitValue(c) == (CHOOSE i \in 1..10 : Digits[i] = c) - 1

JObj(keys, vals) == [t |-> "obj", keys |-> keys, vals |-> vals]
JArr(items) == [t |-> "arr", items |-> items]
JStr(s) == [t |-> "str", s |-> s]
JNum(n) == [t |-> "num", n |-> n]
JBool(b) == [t |-> "bool", b |-> b]
JNull == [t |-> "null"]
Undefined == [t |-> "undefined"]

\* the outcome of a parsing step: the value and the position after it
Parsed(v, next) == [ok |-> TRUE, v |-> v, next |-> next]
SyntaxError == [ok |-> FALSE, v |-> Undefined, next |-> 0]

\* JSON whitespace
IsJsonSpace(c) == c \in {" ", "\t", "\n", "\r"}

RECURSIVE SkipSpace(_, _)
SkipSpace(text, i) ==
    IF i <= Len(text) /\ IsJsonSpace(text[i]) THEN SkipSpace(text, i + 1) ELSE i

\* text[i..] starts with the characters of word
StartsWith(text, i, word) ==
    /\ i + Len(word) - 1 <= Len(text)
    /\ \A k \in 1..Len(word) : text[i + k - 1] = word[k]

\* the character an escape \c stands for ("" when c is no escape the model reads)
Unescaped(c) ==
    IF c \in {"\"", "\\", "/"} THEN c
    ELSE IF c = "n" THEN "\n"
    ELSE IF c = "t" THEN "\t"
    ELSE IF c = "r" THEN "\r"
    ELSE ""

\* the characters of a string literal from position i (after the opening
\* quote) up to the closing quote; acc holds the characters read so far
RECURSIVE ParseChars(_, _, _)
ParseChars(text, i, acc) ==
    LET stops == {k \in i..Len(text) : text[k] \in {"\"", "\\", "\t", "\n", "\r", U0001}}
    IN  IF stops = {} THEN SyntaxError
        ELSE LET k == CHOOSE c \in stops : \A d \in stops : c <= d
                 read == acc \o SubSeq(text, i, k - 1)   \* ordinary characters, as they are
             IN  IF text[k] = "\"" THEN Parsed(JStr(read), k + 1)
                 ELSE IF text[k] # "\\" THEN SyntaxError          \* raw control character
                 ELSE IF k + 1 > Len(text) \/ Unescaped(text[k + 1]) = "" THEN SyntaxError
                 ELSE ParseChars(text, k + 2, Append(read, Unescaped(text[k + 1])))

\* an unsigned integer literal
RECURSIVE ParseDigits(_, _, _)
ParseDigits(text, i, n) ==
    IF i <= Len(text) /\ IsDigit(text[i])
    THEN ParseDigits(text, i + 1, 10 * n + DigitValue(text[i]))
    ELSE Parsed(JNum(n), i)

\* a property is set: a repeated key keeps its place and takes the new value
SetProperty(obj, key, val) ==
    IF \E k \in 1..Len(obj.keys) : obj.keys[k] = key
    THEN JObj(obj.keys, [k \in 1..Len(obj.keys) |->
                            IF obj.keys[k] = key THEN val ELSE obj.vals[k]])
    ELSE JObj(Append(obj.keys, key), Append(obj.vals, val))

RECURSIVE ParseValue(_, _), ParseMembers(_, _, _), ParseElements(_, _, _)

\* a value with the whitespace in front of it
ParseValue(text, i0) ==
    LET i == SkipSpace(text, i0)
    IN  IF i > Len(text) THEN SyntaxError
        ELSE IF text[i] = "{"
             THEN IF SkipSpace(text, i + 1) <= Len(text) /\ text[SkipSpace(text, i + 1)] = "}"
                  THEN Parsed(JObj(<<>>, <<>>), SkipSpace(text, i + 1) + 1)
                  ELSE ParseMembers(text, i + 1, JObj(<<>>, <<>>))
        ELSE IF text[i] = "["
             THEN IF SkipSpace(text, i + 1) <= Len(text) /\ text[SkipSpace(text, i + 1)] = "]"
                  THEN Parsed(JArr(<<>>), SkipSpace(text, i + 1) + 1)
                  ELSE ParseElements(text, i + 1, <<>>)
        ELSE IF text[i] = "\"" THEN ParseChars(text, i + 1, <<>>)
        ELSE IF IsDigit(text[i])
             THEN IF text[i] = "0" /\ i < Len(text) /\ IsDigit(text[i + 1])
                  THEN SyntaxError                              \* leading zero
                  ELSE ParseDigits(text, i, 0)
        ELSE IF StartsWith(text, i, <<"n", "u", "l", "l">>) THEN Parsed(JNull, i + 4)
        ELSE IF StartsWith(text, i, <<"t", "r", "u", "e">>) THEN Parsed(JBool(TRUE), i + 4)
        ELSE IF StartsWith(text, i, <<"f", "a", "l", "s", "e">>) THEN Parsed(JBool(FALSE), i + 5)
        ELSE SyntaxError

\* "key": value members from position i0 up to the closing brace
ParseMembers(text, i0, obj) ==
    LET i == SkipSpace(text, i0)
    IN  IF i > Len(text) \/ text[i] # "\"" THEN SyntaxError
        ELSE LET key == ParseChars(text, i + 1, <<>>)
             IN  IF ~key.ok THEN SyntaxError
                 ELSE LET c == SkipSpace(text, key.next)
                      IN  IF c > Len(text) \/ text[c] # ":" THEN SyntaxError
                          ELSE LET val == ParseValue(text, c + 1)
                               IN  IF ~val.ok THEN SyntaxError
                                   ELSE LET e == SkipSpace(text, val.next)
                                            o == SetProperty(obj, key.v.s, val.v)
                                        IN  IF e > Len(text) THEN SyntaxError
                                            ELSE IF text[e] = "}" THEN Parsed(o, e + 1)
                                            ELSE IF text[e] = ","
                                                 THEN ParseMembers(text, e + 1, o)
                                            ELSE SyntaxError

\* elements from position i0 up to the closing bracket
ParseElements(text, i0, items) ==
    LET val == ParseValue(text, i0)
    IN  IF ~val.ok THEN SyntaxError
        ELSE LET e == SkipSpace(text, val.next)
             IN  IF e > Len(text) THEN SyntaxError
                 ELSE IF text[e] = "]" THEN Parsed(JArr(Append(items, val.v)), e + 1)
                 ELSE IF text[e] = ","
                      THEN ParseElements(text, e + 1, Append(items, val.v))
                 ELSE SyntaxError

\* JSON.parse(text): the value, or a SyntaxError
JSONParse(text) ==
    LET val == ParseValue(text, 1)
    IN  IF val.ok /\ SkipSpace(text, val.next) = Len(text) + 1 THEN val ELSE SyntaxError

\* text.match(/\{[\s\S]*\}/): the span from the first "{" to the last "}"
\* behind it, or no match (ok = FALSE)
MatchBraces(text) ==
    IF \E i, j \in 1..Len(text) : i < j /\ text[i] = "{" /\ text[j] = "}"
    THEN LET first == CHOOSE i \in 1..Len(text) :
                         text[i] = "{" /\ \A h \in 1..(i - 1) : text[h] # "{"
             last == CHOOSE j \in 1..Len(text) :
                         text[j] = "}" /\ \A h \in (j + 1)..Len(text) : text[h] # "}"
         IN  IF first < last
             THEN [ok |-> TRUE, s |-> SubSeq(text, first, last)]
             ELSE [ok |-> FALSE, s |-> <<>>]
    ELSE [ok |-> FALSE, s |-> <<>>]

(***************************************************************************)
(* JSON.stringify, used to write the provider payloads of the model.       *)
(***************************************************************************)
RECURSIVE Concat(_)
Concat(ss) ==
    IF ss = <<>> THEN <<>>
    ELSE IF Len(ss) = 1 THEN ss[1]
    ELSE Concat(SubSeq(ss, 1, Len(ss) \div 2)) \o Concat(SubSeq(ss, (Len(ss) \div 2) + 1, Len(ss)))

\* the elements of ss with sep between them
RECURSIVE Join(_, _)
Join(ss, sep) ==
    IF ss = <<>> THEN <<>>
    ELSE IF Len(ss) = 1 THEN ss[1]
    ELSE ss[1] \o sep \o Join(Tail(ss), sep)

EscapeChar(c) ==
    IF c = "\"" THEN <<"\\", "\"">>
    ELSE IF c = "\\" THEN <<"\\", "\\">>
    ELSE IF c = "\n" THEN <<"\\", "n">>
    ELSE IF c = "\t" THEN <<"\\", "t">>
    ELSE IF c = "\r" THEN <<"\\", "r">>
    ELSE <<c>>

Quote(s) == <<"\"">> \o Concat([i \in 1..Len(s) |-> EscapeChar(s[i])]) \o <<"\"">>

\* the decimal digits of a natural number
RECURSIVE Decimal(_)
Decimal(n) == IF n < 10 THEN <<Digits[n + 1]>> ELSE Decimal(n \div 10) \o <<Digits[(n % 10) + 1]>>

RECURSIVE Stringify(_)
Stringify(v) ==
    IF v.t = "obj"
    THEN <<"{">> \o Join([k \in 1..Len(v.keys) |->
                            Quote(v.keys[k]) \o <<":">> \o Stringify(v.vals[k])], <<",">>)
         \o <<"}">>
    ELSE IF v.t = "arr"
    THEN <<"[">> \o Join([k \in 1..Len(v.items) |-> Stringify(v.items[k])], <<",">>) \o <<"]">>
    ELSE IF v.t = "str" THEN Quote(v.s)
    ELSE IF v.t = "num" THEN Decimal(v.n)
    ELSE IF v.t = "bool" THEN (IF v.b THEN <<"t", "r", "u", "e">> ELSE <<"f", "a", "l", "s", "e">>)
    ELSE <<"n", "u", "l", "l">>

(***************************************************************************)
(* Property access and truthiness of parsed values.                        *)
(***************************************************************************)
\* value.key: undefined when the value is no object or has no such key
Get(v, key) ==
    IF v.t = "obj" /\ \E k \in 1..Len(v.keys) : v.keys[k] = key
    THEN v.vals[CHOOSE k \in 1..Len(v.keys) : v.keys[k] = key]
    ELSE Undefined

IsTruthy(v) ==
    IF v.t \in {"undefined", "null"} THEN FALSE
    ELSE IF v.t = "str" THEN v.s # <<>>
    ELSE IF v.t = "num" THEN v.n # 0
    ELSE IF v.t = "bool" THEN v.b
    ELSE TRUE

\* a || b
Or(a, b) == IF IsTruthy(a) THEN a ELSE b

IsArray(v) == v.t = "arr"

(***************************************************************************)
(* The two sanitizers of aiService.ts, character by character.             *)
(***************************************************************************)
\* [\x00-\x1F\x7F-\x9F]
IsControl(c) == c \in {"\t", "\n", "\r", U0001}

\* . of a regular expression: anything but a line terminator
IsLineTerminator(c) == c \in {"\n", "\r"}

\* the letters the /i flag matters for
Lower(c) ==
    IF c = "S" THEN "s" ELSE IF c = "C" THEN "c" ELSE IF c = "R" THEN "r"
    ELSE IF c = "I" THEN "i" ELSE IF c = "P" THEN "p" ELSE IF c = "T" THEN "t"
    ELSE c

StartsWithIgnoreCase(text, i, word) ==
    /\ i + Len(word) - 1 <= Len(text)
    /\ \A k \in 1..Len(word) : Lower(text[i + k - 1]) = word[k]

ScriptOpen == <<"<", "s", "c", "r", "i", "p", "t">>
ScriptClose == <<"<", "/", "s", "c", "r", "i", "p", "t", ">">>

\* .replace(/[\x00-\x1F\x7F-\x9F]/g, '')
RemoveControl(s) == SelectSeq(s, LAMBDA c : ~IsControl(c))

\* where a match of /<script[^>]*>.*?<\/script>/i that starts at i ends
\* (the position after it), or 0 when there is none
ScriptMatchEnd(s, i) ==
    IF ~StartsWithIgnoreCase(s, i, ScriptOpen) THEN 0
    ELSE IF ~\E j \in (i + 7)..Len(s) : s[j] = ">" THEN 0
    ELSE LET j == CHOOSE g \in (i + 7)..Len(s) :
                     s[g] = ">" /\ \A h \in (i + 7)..(g - 1) : s[h] # ">"
             closes == {k \in (j + 1)..Len(s) : StartsWithIgnoreCase(s, k, ScriptClose)}
         IN  IF closes = {} THEN 0
             ELSE LET k == CHOOSE c \in closes : \A d \in closes : c <= d
                  IN  IF \E h \in (j + 1)..(k - 1) : IsLineTerminator(s[h]) THEN 0
                      ELSE k + Len(ScriptClose)

\* .replace(/<script[^>]*>.*?<\/script>/gi, '') from position i on
RECURSIVE RemoveScriptsFrom(_, _)
RemoveScriptsFrom(s, i) ==
    IF i > Len(s) THEN <<>>
    ELSE IF ScriptMatchEnd(s, i) # 0 THEN RemoveScriptsFrom(s, ScriptMatchEnd(s, i))
    ELSE <<s[i]>> \o RemoveScriptsFrom(s, i + 1)

\* (a text without a match is returned as it is)
RemoveScripts(s) ==
    IF \A i \in 1..Len(s) : ScriptMatchEnd(s, i) = 0 THEN s ELSE RemoveScriptsFrom(s, 1)

\* where a match of /<[^>]+>/ that starts at i ends, or 0
TagMatchEnd(s, i) ==
    IF s[i] # "<" \/ i + 1 > Len(s) \/ s[i + 1] = ">" THEN 0
    ELSE IF ~\E j \in (i + 2)..Len(s) : s[j] = ">" THEN 0
    ELSE (CHOOSE g \in (i + 2)..Len(s) :
              s[g] = ">" /\ \A h \in (i + 2)..(g - 1) : s[h] # ">") + 1

\* .replace(/<[^>]+>/g, '') from position i on
RECURSIVE RemoveTagsFrom(_, _)
RemoveTagsFrom(s, i) ==
    IF i > Len(s) THEN <<>>
    ELSE IF TagMatchEnd(s, i) # 0 THEN RemoveTagsFrom(s, TagMatchEnd(s, i))
    ELSE <<s[i]>> \o RemoveTagsFrom(s, i + 1)

\* (a text without a match is returned as it is)
RemoveTags(s) ==
    IF \A i \in 1..Len(s) : TagMatchEnd(s, i) = 0 THEN s ELSE RemoveTagsFrom(s, 1)

\* .replace(/\s+/g, ' ') from position i on
RECURSIVE CollapseFrom(_, _)
CollapseFrom(s, i) ==
    IF i > Len(s) THEN <<>>
    ELSE IF IsSpace(s[i])
         THEN IF i > 1 /\ IsSpace(s[i - 1]) THEN CollapseFrom(s, i + 1)
              ELSE <<" ">> \o CollapseFrom(s, i + 1)
    ELSE <<s[i]>> \o CollapseFrom(s, i + 1)

\* (a text without whitespace is returned as it is)
CollapseSpace(s) ==
    IF \A i \in 1..Len(s) : ~IsSpace(s[i]) THEN s ELSE CollapseFrom(s, 1)

\* replacements that leave the forward slash as it is
EscapeHtmlCharNoSlash(c) ==
    IF c = "&" THEN <<"&", "a", "m", "p", ";">>
    ELSE IF c = "<" THEN <<"&", "l", "t", ";">>
    ELSE IF c = ">" THEN <<"&", "g", "t", ";">>
    ELSE IF c = "\"" THEN <<"&", "q", "u", "o", "t", ";">>
    ELSE IF c = "'" THEN <<"&", "#", "x", "2", "7", ";">>
    ELSE <<c>>

\* the six replacements that escape & < > " ' /
EscapeHtmlChar(c) ==
    IF c = "&" THEN <<"&", "a", "m", "p", ";">>
    ELSE IF c = "<" THEN <<"&", "l", "t", ";">>
    ELSE IF c = ">" THEN <<"&", "g", "t", ";">>
    ELSE IF c = "\"" THEN <<"&", "q", "u", "o", "t", ";">>
    ELSE IF c = "'" THEN <<"&", "#", "x", "2", "7", ";">>
    ELSE IF c = "/" THEN <<"&", "#", "x", "2", "F", ";">>
    ELSE <<c>>

\* (a text without any of the six is returned as it is)
EscapeHtml(s) ==
    IF \A i \in 1..Len(s) : EscapeHtmlChar(s[i]) = <<s[i]>> THEN s
    ELSE Concat([i \in 1..Len(s) |-> EscapeHtmlChar(s[i])])

MinQueryLength == 2
MaxQueryLength == 500

\* an Error: its message (the fragments it is concatenated from) and its
\* status property (0 when it has none)
Error(message, status) == [message |-> message, status |-> status]

\* message.includes(needle), for a needle that is a fragment of its own
Includes(message, needle) == \E i \in 1..Len(message) : message[i] = needle

Failed(error) == [t |-> "throw", error |-> error, v |-> <<>>]
Succeeded(v) == [t |-> "return", error |-> Error(<<>>, 0), v |-> v]

\* a sanitizer that also turns away a query of exactly the minimum length
sanitizeInputOffByOne(input) ==
    IF ~IsTruthy(input) \/ input.t # "str"
    THEN Failed(Error(<<"Invalid input", ": query must be a non-empty string">>, 0))
    ELSE IF Len(Trim(input.s)) <= MinQueryLength
    THEN Failed(Error(<<"Query too short", ": minimum 2 characters required">>, 0))
    ELSE IF Len(Trim(input.s)) > MaxQueryLength
    THEN Failed(Error(<<"Query too long", ": maximum 500 characters allowed">>, 0))
    ELSE Succeeded(EscapeHtml(Trim(CollapseSpace(
             RemoveTags(RemoveScripts(RemoveControl(Trim(input.s))))))))

\* sanitizeInput(input); input is a parsed value (the query as received)
sanitizeInput(input) ==
    IF ~IsTruthy(input) \/ input.t # "str"
    THEN Failed(Error(<<"Invalid input", ": query must be a non-empty string">>, 0))
    ELSE IF Len(Trim(input.s)) < MinQueryLength
    THEN Failed(Error(<<"Query too short", ": minimum 2 characters required">>, 0))
    ELSE IF Len(Trim(input.s)) > MaxQueryLength
    THEN Failed(Error(<<"Query too long", ": maximum 500 characters allowed">>, 0))
    ELSE Succeeded(EscapeHtml(Trim(CollapseSpace(
             RemoveTags(RemoveScripts(RemoveControl(Trim(input.s))))))))

DefaultMaxLength == 2000

\* a sanitizer that cuts without appending the marker
sanitizeApiTextNoMarker(text, maxLength) ==
    IF ~IsTruthy(text) \/ text.t # "str" THEN <<>>
    ELSE LET trimmed == Trim(text.s)
             capped == IF Len(trimmed) > maxLength
                       THEN SubSeq(trimmed, 1, maxLength)
                       ELSE trimmed
         IN  Trim(CollapseSpace(RemoveScripts(RemoveControl(capped))))

\* sanitizeApiText(text, maxLength); text is a parsed value
sanitizeApiText(text, maxLength) ==
    IF ~IsTruthy(text) \/ text.t # "str" THEN <<>>
    ELSE LET trimmed == Trim(text.s)
             capped == IF Len(trimmed) > maxLength
                       THEN SubSeq(trimmed, 1, maxLength) \o <<".", ".", ".">>
                       ELSE trimmed
         IN  Trim(CollapseSpace(RemoveScripts(RemoveControl(capped))))

(***************************************************************************)
(* searchNews(query) of aiService.ts.                                      *)
(***************************************************************************)
\* the property names searchNews reads
K ==
    [ title |-> <<"t", "i", "t", "l", "e">>,
      Title |-> <<"T", "i", "t", "l", "e">>,
      summary |-> <<"s", "u", "m", "m", "a", "r", "y">>,
      Summary |-> <<"S", "u", "m", "m", "a", "r", "y">>,
      relevance |-> <<"r", "e", "l", "e", "v", "a", "n", "c", "e">>,
      Relevance |-> <<"R", "e", "l", "e", "v", "a", "n", "c", "e">>,
      category |-> <<"c", "a", "t", "e", "g", "o", "r", "y">>,
      Category |-> <<"C", "a", "t", "e", "g", "o", "r", "y">>,
      url |-> <<"u", "r", "l">>,
      URL |-> <<"U", "R", "L">>,
      publishedDate |-> <<"p", "u", "b", "l", "i", "s", "h", "e", "d", "D", "a", "t", "e">>,
      PublishedDate |-> <<"P", "u", "b", "l", "i", "s", "h", "e", "d", "D", "a", "t", "e">>,
      source |-> <<"s", "o", "u", "r", "c", "e">>,
      Source |-> <<"S", "o", "u", "r", "c", "e">>,
      articles |-> <<"a", "r", "t", "i", "c", "l", "e", "s">>,
      results |-> <<"r", "e", "s", "u", "l", "t", "s">>,
      news |-> <<"n", "e", "w", "s">> ]

\* what a property that is missing or falsy is replaced by
Fallback ==
    [ title |-> <<"U", "n", "t", "i", "t", "l", "e", "d">>,
      summary |-> <<"N", "o", " ", "s", "u", "m", "m", "a", "r", "y", " ", "a", "v", "a", "i", "l", "a", "b", "l", "e">>,
      relevance |-> <<"R", "e", "l", "a", "t", "e", "d", " ", "t", "o", " ", "s", "e", "a", "r", "c", "h", " ", "q", "u", "e", "r", "y">>,
      category |-> <<"W", "o", "r", "l", "d">>,
      source |-> <<"U", "n", "k", "n", "o", "w", "n">> ]
\* new Date().toISOString(): the time of the call
NowISO == <<"2", "0", "2", "6", "-", "0", "1", "-", "0", "1", "T", "0", "0", ":", "0", "0", ":", "0", "0", ".", "0", "0", "0", "Z">>

MaxTitle == 200
MaxSummary == 1000
MaxRelevance == 500
MaxSource == 100
MaxArticles == 5

\* a canonical array index: such keys come first, in ascending order, when
\* the properties of an object are enumerated
IsIndexKey(k) ==
    /\ Len(k) \in 1..9
    /\ \A i \in 1..Len(k) : IsDigit(k[i])
    /\ (Len(k) = 1 \/ k[1] # "0")

IndexOf(k) == ParseDigits(k, 1, 0).v.n

\* positions of the index keys of an object, by ascending index
RECURSIVE AscendingIndexKeys(_, _)
AscendingIndexKeys(obj, todo) ==
    IF todo = {} THEN <<>>
    ELSE LET least == CHOOSE p \in todo :
                         \A q \in todo : IndexOf(obj.keys[p]) <= IndexOf(obj.keys[q])
         IN  <<least>> \o AscendingIndexKeys(obj, todo \ {least})

\* Object.values(value)
ObjectValues(v) ==
    IF v.t = "arr" THEN v.items
    ELSE IF v.t # "obj" THEN <<>>
    ELSE LET idx == AscendingIndexKeys(v, {p \in 1..Len(v.keys) : IsIndexKey(v.keys[p])})
             rest == SelectSeq([p \in 1..Len(v.keys) |-> p],
                               LAMBDA p : ~IsIndexKey(v.keys[p]))
         IN  [p \in 1..Len(idx) |-> v.vals[idx[p]]] \o [p \in 1..Len(rest) |-> v.vals[rest[p]]]

\* item && typeof item === 'object' && item.title
HasTitle(item) == IsTruthy(item) /\ item.t \in {"obj", "arr"} /\ IsTruthy(Get(item, K.title))

\* a resolution that looks under results before it looks under articles
ResolveResultsResultsFirst(parsed) ==
    IF IsArray(parsed) THEN parsed.items
    ELSE IF IsTruthy(Get(parsed, K.results)) /\ IsArray(Get(parsed, K.results))
    THEN Get(parsed, K.results).items
    ELSE IF IsTruthy(Get(parsed, K.articles)) /\ IsArray(Get(parsed, K.articles))
    THEN Get(parsed, K.articles).items
    ELSE IF IsTruthy(Get(parsed, K.news)) /\ IsArray(Get(parsed, K.news))
    THEN Get(parsed, K.news).items
    ELSE SelectSeq(ObjectValues(parsed), HasTitle)

\* the article list of a parsed payload ("Handle different response formats")
ResolveResults(parsed) ==
    IF IsArray(parsed) THEN parsed.items
    ELSE IF IsTruthy(Get(parsed, K.articles)) /\ IsArray(Get(parsed, K.articles))
    THEN Get(parsed, K.articles).items
    ELSE IF IsTruthy(Get(parsed, K.results)) /\ IsArray(Get(parsed, K.results))
    THEN Get(parsed, K.results).items
    ELSE IF IsTruthy(Get(parsed, K.news)) /\ IsArray(Get(parsed, K.news))
    THEN Get(parsed, K.news).items
    ELSE SelectSeq(ObjectValues(parsed), HasTitle)

\* an extraction that lets the SyntaxError of JSON.parse escape
ExtractResultsParseThrows(outputText) ==
    LET jsonMatch == MatchBraces(outputText)
    IN  IF ~jsonMatch.ok THEN Succeeded(<<>>)
        ELSE IF ~JSONParse(jsonMatch.s).ok
        THEN Failed(Error(<<"Unexpected token in JSON">>, 0))
        ELSE Succeeded(ResolveResults(JSONParse(jsonMatch.s).v))

\* the inner try/catch over a text payload: the raw results
ExtractResults(outputText) ==
    LET jsonMatch == MatchBraces(outputText)
    IN  IF ~jsonMatch.ok THEN Succeeded(<<>>)
        ELSE IF ~JSONParse(jsonMatch.s).ok THEN Succeeded(<<>>)
        ELSE Succeeded(ResolveResults(JSONParse(jsonMatch.s).v))

Article(title, summary, relevance, category, url, publishedDate, source) ==
    [title |-> title, summary |-> summary, relevance |-> relevance, category |-> category,
     url |-> url, publishedDate |-> publishedDate, source |-> source]

\* a callback that reads the capitalised name of a field before the
\* lower-case one
SanitizeResultCapitalFirst(result) ==
    IF result.t \in {"null", "undefined"}
    THEN Failed(Error(<<"Cannot read properties of ", result.t, " (reading 'title')">>, 0))
    ELSE LET title == Or(Get(result, K.Title), Get(result, K.title))
             summary == Or(Get(result, K.Summary), Get(result, K.summary))
             relevance == Or(Get(result, K.Relevance), Get(result, K.relevance))
             category == Or(Get(result, K.Category), Get(result, K.category))
             url == Or(Get(result, K.URL), Get(result, K.url))
             publishedDate == Or(Get(result, K.PublishedDate), Get(result, K.publishedDate))
             source == Or(Get(result, K.Source), Get(result, K.source))
         IN  IF summary.t \notin {"undefined", "null", "str"}
             THEN Failed(Error(<<"normalizedResult.summary?.substring is not a function">>, 0))
             ELSE Succeeded(Article(
                      JStr(sanitizeApiText(Or(title, JStr(Fallback.title)), MaxTitle)),
                      JStr(sanitizeApiText(Or(summary, JStr(Fallback.summary)), MaxSummary)),
                      JStr(sanitizeApiText(Or(relevance, JStr(Fallback.relevance)), MaxRelevance)),
                      Or(category, JStr(Fallback.category)),
                      Or(url, JStr(<<>>)),
                      Or(publishedDate, JStr(NowISO)),
                      JStr(sanitizeApiText(Or(source, JStr(Fallback.source)), MaxSource))))

\* the callback of results.map: the sanitized article, or the TypeError of
\* reading a property of null or of calling substring on what has none
SanitizeResult(result) ==
    IF result.t \in {"null", "undefined"}
    THEN Failed(Error(<<"Cannot read properties of ", result.t, " (reading 'title')">>, 0))
    ELSE LET title == Or(Get(result, K.title), Get(result, K.Title))
             summary == Or(Get(result, K.summary), Get(result, K.Summary))
             relevance == Or(Get(result, K.relevance), Get(result, K.Relevance))
             category == Or(Get(result, K.category), Get(result, K.Category))
             url == Or(Get(result, K.url), Get(result, K.URL))
             publishedDate == Or(Get(result, K.publishedDate), Get(result, K.PublishedDate))
             source == Or(Get(result, K.source), Get(result, K.Source))
         IN  IF summary.t \notin {"undefined", "null", "str"}
             THEN Failed(Error(<<"normalizedResult.summary?.substring is not a function">>, 0))
             ELSE Succeeded(Article(
                      JStr(sanitizeApiText(Or(title, JStr(Fallback.title)), MaxTitle)),
                      JStr(sanitizeApiText(Or(summary, JStr(Fallback.summary)), MaxSummary)),
                      JStr(sanitizeApiText(Or(relevance, JStr(Fallback.relevance)), MaxRelevance)),
                      Or(category, JStr(Fallback.category)),
                      Or(url, JStr(<<>>)),
                      Or(publishedDate, JStr(NowISO)),
                      JStr(sanitizeApiText(Or(source, JStr(Fallback.source)), MaxSource))))

\* results.map(...): the first exception of the callback ends it
MapStep(first, others) ==
    IF first.t = "throw" THEN first
    ELSE IF others.t = "throw" THEN others
    ELSE Succeeded(<<first.v>> \o others.v)

RECURSIVE SanitizeResults(_)
SanitizeResults(results) ==
    IF results = <<>> THEN Succeeded(<<>>)
    ELSE MapStep(SanitizeResult(Head(results)), SanitizeResults(Tail(results)))

\* a cap that keeps the last articles instead of the first
CapArticlesKeepLast(articles) ==
    SubSeq(articles, IF Len(articles) > MaxArticles THEN Len(articles) - MaxArticles + 1 ELSE 1,
           Len(articles))

\* results.slice(0, 5)
CapArticles(articles) == SliceTo(articles, MaxArticles)

\* return sanitizedResults.slice(0, 5)
ReturnSanitized(sanitizedResults) ==
    IF sanitizedResults.t = "throw" THEN sanitizedResults
    ELSE Succeeded(CapArticles(sanitizedResults.v))

\* the statements of searchNews after the results are extracted
SanitizeExtracted(results) ==
    IF results.t = "throw" THEN results
    ELSE ReturnSanitized(SanitizeResults(results.v))

\* what one call meets: whether an API key is configured, and the
\* provider's answer (a rejection with an error, or a response object)
NewsEnv(key, resolved, error, output_text, output) ==
    [key |-> key, resolved |-> resolved, error |-> error,
     output_text |-> output_text, output |-> output]

\* the try block of searchNews
SearchNewsBody(query, env) ==
    IF ~env.key THEN Failed(Error(<<"OpenAI API key not configured">>, 0))
    ELSE IF sanitizeInput(query).t = "throw" THEN sanitizeInput(query)
    ELSE IF ~env.resolved THEN Failed(env.error)
    ELSE LET outputText == Or(Or(env.output_text, env.output), JStr(<<>>))
         IN  IF ~IsTruthy(outputText)
             THEN Failed(Error(<<"No response from OpenAI Web Search">>, 0))
             ELSE IF outputText.t # "str"
             THEN Failed(Error(<<"outputText.substring is not a function">>, 0))
             ELSE SanitizeExtracted(ExtractResults(outputText.s))

\* the requests searchNews(query) issues: one, carrying the sanitized
\* query, once the key and the query have passed their tests
searchNewsRequests(query, env) ==
    IF ~env.key \/ sanitizeInput(query).t = "throw" THEN <<>>
    ELSE <<ProviderRequest("responses.create", sanitizeInput(query).v)>>

\* the catch block of searchNews: the error the caller gets
FriendlyError(error) ==
    IF Includes(error.message, "Invalid input") THEN error
    ELSE IF Includes(error.message, "model") \/ error.status = 404
    THEN Error(<<"Model not available",
                 ". Please ensure your OpenAI API key has access to gpt-4o-mini or gpt-4o.">>, 0)
    ELSE IF error.status = 429
    THEN Error(<<"Rate limit exceeded", ". Please try again later.">>, 0)
    ELSE IF error.status = 401
    THEN Error(<<"Invalid API key", ". Please check your OpenAI API key configuration.">>, 0)
    ELSE Error(IF error.message # <<>> THEN error.message
               ELSE <<"Error searching news with OpenAI Web Search">>, 0)

searchNews(query, env) ==
    LET body == SearchNewsBody(query, env)
    IN  IF body.t = "throw" THEN Failed(FriendlyError(body.error)) ELSE body

(***************************************************************************)
(* Specification of cosineSimilarity as a function of its arguments.       *)
(***************************************************************************)
NewsCall(query, env) == [query |-> query, env |-> env]
NoNewsCall == NewsCall(Undefined, NewsEnv(FALSE, FALSE, Error(<<>>, 0), Undefined, Undefined))
NewsNotCalled == [t |-> "none", error |-> Error(<<>>, 0), v |-> <<>>]

NewsIdle == newsIn = NoNewsCall /\ newsOut = NewsNotCalled

\* searchNewsController up to its response; found is what searchNews gives
\* for the trimmed query, read only once the request has passed the two checks
NewsOutcome(userId, query, env, found) ==
    LET answer(status, error, echoed, results) ==
            [op |-> "news", req |-> [userId |-> userId, query |-> query], env |-> env,
             status |-> status, error |-> error, query |-> echoed, results |-> results]
    IN  IF userId = NoUser THEN answer(401, <<"Unauthorized">>, <<>>, <<>>)
        ELSE IF ~IsTruthy(query) \/ query.t # "str" \/ Len(Trim(query.s)) = 0
        THEN answer(400, <<"Search query is required">>, <<>>, <<>>)
        ELSE IF found.t = "throw"
        THEN answer(500, IF found.error.message # <<>> THEN found.error.message
                         ELSE <<"Error searching news">>, <<>>, <<>>)
        ELSE answer(200, <<>>, Trim(query.s), found.v)

\* a controller that records the search before it performs it
searchNewsControllerSavesFirst(userId) ==
    /\ newsIn # NoNewsCall /\ res = NoExchange
    /\ res' = NewsOutcome(userId, newsIn.query, newsIn.env,
                          searchNews(JStr(Trim(newsIn.query.s)), newsIn.env))
    /\ history' = IF res'.status \in {401, 400} THEN history
                  ELSE Append(history,
                              HistoryEntry(userId, Trim(newsIn.query.s), res'.results))
    /\ calls' = calls \o (IF res'.status \in {401, 400} THEN <<>>
                          ELSE searchNewsRequests(JStr(Trim(newsIn.query.s)), newsIn.env))
    /\ UNCHANGED <<posts, users, vecA, vecB, cosOut, newsIn, newsOut, textIn, textOut>>

\* POST /search/news, on the request body and provider answer held in newsIn
searchNewsController(userId) ==
    /\ newsIn # NoNewsCall /\ res = NoExchange
    /\ res' = NewsOutcome(userId, newsIn.query, newsIn.env,
                          searchNews(JStr(Trim(newsIn.query.s)), newsIn.env))
    /\ history' = IF res'.status = 200
                  THEN Append(history, HistoryEntry(userId, res'.query, res'.results))
                  ELSE history
    /\ calls' = calls \o (IF res'.status \in {401, 400} THEN <<>>
                          ELSE searchNewsRequests(JStr(Trim(newsIn.query.s)), newsIn.env))
    /\ UNCHANGED <<posts, users, vecA, vecB, cosOut, newsIn, newsOut, textIn, textOut>>

\* a call of one of the text functions: which one, its text (a value as
\* received) and its other argument
TextCall(fn, text, maxLength, env) ==
    [fn |-> fn, text |-> text, maxLength |-> maxLength, env |-> env]

\* no text function is called, and none has an outcome
TextIdle == textIn = TextCall("none", Undefined, 0, NoEnv) /\ textOut = NewsNotCalled

CosIdle ==
    /\ posts = <<>> /\ users = <<>> /\ history = <<>> /\ res = NoExchange
    /\ NewsIdle /\ TextIdle /\ calls = <<>>

InitCos ==
    /\ vecA \in Vectors
    /\ vecB \in Vectors
    /\ cosOut = NotCalled
    /\ CosIdle

CallCosine ==
    /\ cosOut = NotCalled
    /\ cosOut' = cosineSimilarity(vecA, vecB)
    /\ UNCHANGED <<vecA, vecB, posts, users, history, res, newsIn, newsOut,
                   textIn, textOut, calls>>

NextCos == CallCosine

SpecCos == InitCos /\ [][NextCos]_vars

(***************************************************************************)
(* Specification of the services' text functions, each called once:        *)
(* sanitizeApiText, sanitizeInput and generateEmbedding on their           *)
(* arguments, and searchNews as a function of the query and of what the    *)
(* provider answers.  The payloads hold up to MaxRecords records, as a     *)
(* list under "articles", "results" or "news", as a bare list, or as the   *)
(* values of an object; alone or inside prose; whole or cut short.         *)
(***************************************************************************)
MaxRecords == 6

Titles == <<"A", "B", "C", "D", "E", "F", "G", "H">>
Record(i) == JObj(<<K.title>>, <<JStr(<<Titles[i]>>)>>)
Records(n) == [i \in 1..n |-> Record(i)]

\* an object of n records under the keys k1, k2, ..
KeyedRecords(n) == JObj([i \in 1..n |-> <<"k">> \o Decimal(i)], Records(n))
\* an object of n records under the keys n, .., 2, 1
CountedDown(n) == JObj([i \in 1..n |-> Decimal(n + 1 - i)], Records(n))

PayloadValues ==
    UNION {{JObj(<<K.articles>>, <<JArr(Records(n))>>),
            JObj(<<K.results>>, <<JArr(Records(n))>>),
            JObj(<<K.news>>, <<JArr(Records(n))>>),
            JArr(Records(n)),
            KeyedRecords(n),
            CountedDown(n)} : n \in 0..MaxRecords}

InProse(text) == <<"S", "e", "e", ":", " ">> \o text \o <<" ", "o", "k", ".">>
CutShort(text) == SubSeq(text, 1, Len(text) - 1)

PayloadTexts ==
    {Stringify(v) : v \in PayloadValues}
    \cup {InProse(Stringify(v)) : v \in PayloadValues}
    \cup {CutShort(Stringify(v)) : v \in PayloadValues}
    \cup {<<"n", "o", "t", " ", "j", "s", "o", "n">>, <<"}", " ", "{">>,
          <<"{", "n", "o", "t", " ", "j", "s", "o", "n", "}">>}

GoodQuery == JStr(<<"o", "k">>)

\* records that name each of title, summary, relevance, category and source
\* in lower case, capitalised, both ways or not at all
NamedRecords ==
    LET names == <<<<K.title, K.Title>>, <<K.summary, K.Summary>>,
                   <<K.relevance, K.Relevance>>, <<K.category, K.Category>>,
                   <<K.source, K.Source>>>>
        field(f, naming) ==
            LET lower == JStr(<<"l", Titles[f]>>)
                capital == JStr(<<"u", Titles[f]>>)
            IN  IF naming = "lower" THEN JObj(<<names[f][1]>>, <<lower>>)
                ELSE IF naming = "capital" THEN JObj(<<names[f][2]>>, <<capital>>)
                ELSE IF naming = "both"
                THEN JObj(<<names[f][2], names[f][1]>>, <<capital, lower>>)
                ELSE JObj(<<>>, <<>>)
        record(namings) ==
            LET part(f) == field(f, namings[f])
            IN  JObj(part(1).keys \o part(2).keys \o part(3).keys \o part(4).keys
                         \o part(5).keys,
                     part(1).vals \o part(2).vals \o part(3).vals \o part(4).vals
                         \o part(5).vals)
    IN  {record(n) : n \in [1..Len(names) -> {"none", "lower", "capital", "both"}]}

\* texts of one letter repeated, bare and with spaces around
LongTexts(n) ==
    {[i \in 1..n |-> "a"], <<" ">> \o [i \in 1..n |-> "a"] \o <<" ", " ">>}

\* records with a title and one field that carries a script block, a line
\* feed, or a script block inside the pieces of another; and records with a
\* title of 300 letters
DirtyRecords ==
    LET script == <<"<", "s", "c", "r", "i", "p", "t", ">", "x", "<", "/", "s", "c", "r", "i",
                    "p", "t", ">">>
        dirty == {<<"a">> \o script \o <<"b">>,
                  <<"a", "\n", "b">>,
                  <<"<", "s", "c", "r">> \o script
                      \o <<"i", "p", "t", ">", "y", "<", "/", "s", "c", "r", "i", "p", "t", ">">>}
        names == {K.title, K.summary, K.relevance, K.category, K.url, K.publishedDate,
                  K.source}
    IN  {SetProperty(Record(1), k, JStr(d)) : k \in names, d \in dirty}
        \cup {SetProperty(Record(1), K.title, JStr(t)) : t \in LongTexts(300)}

\* objects that hold several of the fields articles, results and news, or
\* none of them that is a list
MixedPayloads ==
    LET list(i) == JArr(<<Record(i)>>)
        fields == {JArr(<<>>), JStr(<<"x">>), JNull, Record(7), list(1)}
    IN  {JObj(<<K.articles, K.results, K.news>>, <<a, list(2), list(3)>>) : a \in fields}
        \cup {JObj(<<K.news, K.results, K.articles>>, <<list(3), r, a>>) :
                 r \in fields, a \in {JNull, JStr(<<"x">>)}}
        \cup {JObj(<<K.results, K.news>>, <<r, n>>) : r, n \in fields}
        \cup {JObj(<<K.articles, <<"k", "1">>, <<"k", "2">>, <<"k", "3">>, <<"2">>>>,
                    <<a, Record(1), v, list(4), Record(2)>>) :
                 a \in {JNull, Record(7), JStr(<<"x">>)},
                 v \in {JStr(<<"x">>), JNum(7), JNull, JObj(<<K.summary>>, <<JStr(<<"x">>)>>),
                        JObj(<<K.title>>, <<JStr(<<>>)>>), JObj(<<K.Title>>, <<JStr(<<"T">>)>>),
                        Record(3)}}

\* lists whose entries are not records, and records whose fields are not strings
TypedPayloads ==
    LET odd == {JNull, JNum(7), JNum(0), JBool(TRUE), JBool(FALSE), JStr(<<"x">>), JStr(<<>>),
                JArr(<<>>), JObj(<<>>, <<>>), JArr(<<JStr(<<"x">>)>>)}
    IN  {JObj(<<K.articles>>, <<JArr(<<Record(1), e>>)>>) : e \in odd}
        \cup {JObj(<<K.articles>>, <<JArr(<<JObj(<<f>>, <<v>>), Record(2)>>)>>) :
                 f \in {K.title, K.summary, K.relevance, K.category, K.url,
                        K.publishedDate, K.source},
                 v \in odd}
        \cup {JObj(<<K.articles>>, <<JArr(<<JObj(<<K.summary, K.Summary>>, <<v, w>>)>>)>>) :
                 v \in {JNum(0), JNull, JStr(<<>>)}, w \in {JNum(0), JNum(5), JStr(<<"s">>)}}

NewsEnvs ==
    {NewsEnv(TRUE, TRUE, Error(<<>>, 0), JStr(text), Undefined) : text \in PayloadTexts}
    \cup {NewsEnv(TRUE, TRUE, Error(<<>>, 0), Undefined, JStr(Stringify(v))) : v \in PayloadValues}
    \cup {NewsEnv(TRUE, TRUE, Error(<<>>, 0), JStr(<<>>), Undefined),
          NewsEnv(TRUE, TRUE, Error(<<>>, 0), JStr(<<>>), JArr(<<JObj(<<>>, <<>>)>>)),
          NewsEnv(FALSE, FALSE, Error(<<>>, 0), Undefined, Undefined)}
    \cup {NewsEnv(TRUE, FALSE, Error(m, st), Undefined, Undefined) :
            m \in {<<>>, <<"bad">>, <<"The ", "model", " is not found">>,
                   <<"Invalid input", " to the provider">>},
            st \in {0, 401, 404, 429, 500}}

NewsCalls ==
    {NewsCall(GoodQuery, env) : env \in NewsEnvs}
    \cup {NewsCall(GoodQuery, NewsEnv(TRUE, TRUE, Error(<<>>, 0),
                                      JStr(Stringify(JObj(<<K.results>>, <<JArr(<<r>>)>>))),
                                      Undefined)) : r \in NamedRecords \cup DirtyRecords}
    \cup {NewsCall(GoodQuery, NewsEnv(TRUE, TRUE, Error(<<>>, 0), JStr(Stringify(v)),
                                      Undefined)) : v \in MixedPayloads \cup TypedPayloads}
    \cup {NewsCall(q, NewsEnv(TRUE, TRUE, Error(<<>>, 0), JStr(Stringify(JArr(<<>>))),
                              Undefined)) :
            q \in {JStr(<<"<", "b", ">">>), JStr(<<"<", "a", ">", "b">>),
                   JStr([i \in 1..MaxQueryLength |-> IF i = 1 THEN "&" ELSE "a"])}}
    \cup {NewsCall(q, NewsEnv(TRUE, TRUE, Error(<<>>, 0),
                              JStr(Stringify(JObj(<<K.articles>>, <<JArr(Records(1))>>))),
                              Undefined)) :
            q \in {Undefined, JNum(7), JStr(<<>>), JStr(<<" ", "a", " ">>),
                   JStr([i \in 1..(MaxQueryLength + 1) |-> "a"]),
                   JStr(<<" ", "<", "b", ">", "a", "&", "b", "\t", " ", "c", " ">>)}}
    \cup {NewsCall(q, NewsEnv(FALSE, FALSE, Error(<<>>, 0), Undefined, Undefined)) :
            q \in {JStr(<<>>), JStr(<<" ", "a", " ">>),
                   JStr([i \in 1..(MaxQueryLength + 1) |-> "a"])}}

\* texts put together from up to MaxPieces pieces: letters, spaces, a line
\* feed, the punctuation the sanitizers look for, and script tags
MaxPieces == 3

TextsOf(n) ==
    LET pieces == <<<<"a">>, <<" ">>, <<"\n">>, <<".">>, <<"<">>, <<">">>, <<"&">>,
                    <<"\"", "'", "/">>, ScriptOpen \o <<">">>, ScriptClose>>
    IN  UNION {{Concat([i \in 1..k |-> pieces[f[i]]]) : f \in [1..k -> 1..Len(pieces)]} :
                  k \in 0..n}

\* the calls of sanitizeApiText, sanitizeInput and generateEmbedding
TextCalls ==
    {TextCall("sanitizeApiText", JStr(t), m, NoEnv) : t \in TextsOf(MaxPieces), m \in {2, 9}}
    \cup {TextCall("sanitizeApiText", JStr(t), MaxTitle, NoEnv) :
             t \in LongTexts(MaxTitle) \cup LongTexts(MaxTitle + 1) \cup LongTexts(300)}
    \cup {TextCall("sanitizeApiText", v, DefaultMaxLength, NoEnv) :
             v \in {Undefined, JNull, JNum(7), JStr(<<>>)}}
    \cup {TextCall("sanitizeInput", JStr(t), 0, NoEnv) : t \in TextsOf(MaxPieces)}
    \cup {TextCall("sanitizeInput", JStr(t), 0, NoEnv) :
             t \in LongTexts(MaxQueryLength) \cup LongTexts(MaxQueryLength + 1)}
    \cup {TextCall("sanitizeInput", v, 0, NoEnv) : v \in {Undefined, JNull, JNum(7), JStr(<<>>)}}
    \cup {TextCall("sanitizeInput",
                   JStr([i \in 1..MaxQueryLength |-> IF i = 1 THEN c ELSE "a"]), 0, NoEnv) :
             c \in {"&", "<", "'"}}
    \cup {TextCall("generateEmbedding", JStr(t), 0, env) :
             t \in {<<>>, <<" ">>, <<" ", "\n">>, <<"a">>, <<" ", "a", "b", " ">>}
                    \cup LongTexts(MaxEmbedText + 1),
             env \in Envs}

InitNews ==
    /\ \/ newsIn \in NewsCalls /\ TextIdle
       \/ newsIn = NoNewsCall /\ textIn \in TextCalls /\ textOut = NewsNotCalled
    /\ newsOut = NewsNotCalled
    /\ vecA = <<>> /\ vecB = <<>> /\ cosOut = NotCalled
    /\ posts = <<>> /\ users = <<>> /\ history = <<>> /\ res = NoExchange
    /\ calls = <<>>

CallSearchNews ==
    /\ newsIn # NoNewsCall
    /\ newsOut = NewsNotCalled
    /\ newsOut' = searchNews(newsIn.query, newsIn.env)
    /\ calls' = calls \o searchNewsRequests(newsIn.query, newsIn.env)
    /\ UNCHANGED <<newsIn, vecA, vecB, cosOut, posts, users, history, res, textIn, textOut>>

CallSanitizeApiText ==
    /\ textIn.fn = "sanitizeApiText" /\ textOut = NewsNotCalled
    /\ textOut' = Succeeded(sanitizeApiText(textIn.text, textIn.maxLength))
    /\ UNCHANGED <<textIn, calls, newsIn, newsOut, vecA, vecB, cosOut, posts, users,
                   history, res>>

CallSanitizeInput ==
    /\ textIn.fn = "sanitizeInput" /\ textOut = NewsNotCalled
    /\ textOut' = sanitizeInput(textIn.text)
    /\ UNCHANGED <<textIn, calls, newsIn, newsOut, vecA, vecB, cosOut, posts, users,
                   history, res>>

CallGenerateEmbedding ==
    /\ textIn.fn = "generateEmbedding" /\ textOut = NewsNotCalled
    /\ textOut' = generateEmbedding(textIn.text.s, textIn.env)
    /\ calls' = calls \o generateEmbeddingRequests(textIn.text.s, textIn.env)
    /\ UNCHANGED <<textIn, newsIn, newsOut, vecA, vecB, cosOut, posts, users, history, res>>

NextNews ==
    \/ CallSearchNews
    \/ CallSanitizeApiText
    \/ CallSanitizeInput
    \/ CallGenerateEmbedding

SpecNews == InitNews /\ [][NextNews]_vars

(***************************************************************************)
(* Specification of the entity search.  A behaviour is one request handled *)
(* against a store drawn by Init: the two collections hold up to           *)
(* MaxEntities documents between them, each with no embedding (null), an   *)
(* empty one, or a vector of two or three components.  The handlers keep   *)
(* nothing between requests but the history they append to.                *)
(***************************************************************************)
MaxEntities == 3

StoredEmbeddings ==
    {NullEmbedding, Embedding(<<>>), Embedding(V(1, 0)), Embedding(V(4, 3)),
     Embedding(V(1, 1)), Embedding(<<Fin(1, 0), Fin(0, 0), Fin(0, 0)>>)}

Collections(n) == {Collection(e) : e \in [1..n -> StoredEmbeddings]}

SearchRequests ==
    {Request(NoUser, TRUE, <<"a", "b">>, Absent, Absent),
     Request("u1", FALSE, <<>>, Absent, Absent),
     Request("u1", TRUE, <<" ">>, Absent, Absent)}
    \cup {Request("u1", TRUE, <<" ", "a", "b">>, l, t) :
            l \in {Absent, Num(1)}, t \in {Absent, Real(Rat(4, 5))}}

\* the bodies a news search request can carry and what searchNews then meets
NewsRequests ==
    {NewsCall(q, env) :
        q \in {Undefined, JNum(7), JStr(<<>>), JStr(<<" ">>), JStr(<<" ", "a", " ">>),
               JStr(<<" ", "o", "k", " ">>), JStr(<<"a", "&", "b", " ">>),
               JStr(<<"<", "b", ">", "o", "k">>),
               JStr([i \in 1..(MaxQueryLength + 1) |-> "a"])},
        env \in {NewsEnv(TRUE, TRUE, Error(<<>>, 0),
                         JStr(Stringify(JObj(<<K.articles>>, <<JArr(Records(n))>>))),
                         Undefined) : n \in {0, 2, MaxRecords}}
                \cup {NewsEnv(TRUE, TRUE, Error(<<>>, 0), JStr(<<"n", "o">>), Undefined),
                      NewsEnv(TRUE, TRUE, Error(<<>>, 0), JStr(<<>>), Undefined),
                      NewsEnv(TRUE, FALSE, Error(<<"busy">>, 429), Undefined, Undefined),
                      NewsEnv(FALSE, FALSE, Error(<<>>, 0), Undefined, Undefined)}}

\* a behaviour handles one request: an entity search against a drawn store,
\* or a news search on a drawn body and provider answer
Init ==
    /\ \/ /\ \E p \in 0..MaxEntities : \E u \in 0..(MaxEntities - p) :
                /\ posts \in Collections(p)
                /\ users \in Collections(u)
          /\ newsIn = NoNewsCall
       \/ /\ posts = <<>> /\ users = <<>>
          /\ newsIn \in NewsRequests
    /\ newsOut = NewsNotCalled
    /\ history = <<>>
    /\ res = NoExchange
    /\ vecA = <<>> /\ vecB = <<>> /\ cosOut = NotCalled
    /\ TextIdle /\ calls = <<>>

Next ==
    \/ \E req \in SearchRequests, env \in Envs : searchPosts(req, env)
    \/ \E req \in SearchRequests, env \in Envs : searchUsers(req, env)
    \/ \E userId \in {NoUser, "u1"} : searchNewsController(userId)

Spec == Init /\ [][Next]_vars

(***************************************************************************)
(* The handlers that write embeddings: createPost, updatePost, register,   *)
(* googleAuth and updateCurrentUser.  Next to its embedding a document     *)
(* keeps the text the embedding was generated from (embeddedText): the     *)
(* schema has no such field, it is the input of the provider call that     *)
(* produced the stored vector.                                             *)
(***************************************************************************)
MaxContent == 1000
MinUsername == 3
MaxUsername == 30
MaxRegisterUsername == 50
MinPassword == 6

PostDoc(id, userId, content, embedding, embeddedText) ==
    [id |-> id, userId |-> userId, content |-> content,
     embedding |-> embedding, embeddedText |-> embeddedText]

UserDoc(id, username, email, googleId, embedding, embeddedText) ==
    [id |-> id, username |-> username, email |-> email, googleId |-> googleId,
     embedding |-> embedding, embeddedText |-> embeddedText]

\* the _id of the n-th user created
UserIds == <<"u1", "u2", "u3", "u4", "u5", "u6">>
NoGoogleId == "none"

\* Model.findById(id): the place of the document, 0 for null
Position(coll, id) ==
    IF \E i \in 1..Len(coll) : coll[i].id = id
    THEN CHOOSE i \in 1..Len(coll) : coll[i].id = id
    ELSE 0

\* (await User.findById(userId))?.username; <<>> for undefined
UsernameOf(userId) ==
    IF Position(users, userId) = 0 THEN <<>> ELSE users[Position(users, userId)].username

\* `Author: ${username}\nContent: ${content}`, or the content alone
PostText(content, username) ==
    IF username = <<>> THEN content
    ELSE <<"A", "u", "t", "h", "o", "r", ":", " ">> \o username
         \o <<"\n", "C", "o", "n", "t", "e", "n", "t", ":", " ">> \o content

\* `Username: ${username}\nEmail: ${email}`
UserText(username, email) ==
    <<"U", "s", "e", "r", "n", "a", "m", "e", ":", " ">> \o username
    \o <<"\n", "E", "m", "a", "i", "l", ":", " ">> \o email

generatePostEmbedding(content, username, env) ==
    generateEmbedding(PostText(content, username), env)

generateUserEmbedding(username, email, env) ==
    generateEmbedding(UserText(username, email), env)

\* the embedding field after a try block around a generation: the new
\* vector, or what the field held (null for a new document)
EmbeddingAfter(generated, held) ==
    IF generated.t = "throw" THEN held ELSE Embedding(generated.v)

\* the text the field's vector comes from, after the same try block
TextAfter(generated, text, held) == IF generated.t = "throw" THEN held ELSE text

\* String.prototype.toLowerCase, on the letters of the model's addresses
UpperCase == <<"A", "B", "C", "I", "N", "O", "T", "X">>
LowerCase == <<"a", "b", "c", "i", "n", "o", "t", "x">>
ToLowerCase(s) ==
    [i \in 1..Len(s) |->
        IF \E k \in 1..Len(UpperCase) : UpperCase[k] = s[i]
        THEN LowerCase[CHOOSE k \in 1..Len(UpperCase) : UpperCase[k] = s[i]]
        ELSE s[i]]

\* /^[^\s@]+@[^\s@]+\.[^\s@]+$/.test(email)
IsEmail(email) ==
    \E i, j \in 1..Len(email) :
        /\ email[i] = "@" /\ email[j] = "."
        /\ 1 < i /\ i + 1 < j /\ j < Len(email)
        /\ \A k \in 1..Len(email) : ~IsSpace(email[k]) /\ (email[k] = "@" => k = i)

\* email.split('@')[0]
BeforeAt(email) ==
    IF \E i \in 1..Len(email) : email[i] = "@"
    THEN SubSeq(email, 1, (CHOOSE i \in 1..Len(email) :
                              email[i] = "@" /\ \A h \in 1..(i - 1) : email[h] # "@") - 1)
    ELSE email

\* user.save() rejects the document: the username (trimmed by the schema)
\* is outside 3..30 characters or is another user's
UserSaveFails(id, username) ==
    \/ Len(Trim(username)) < MinUsername
    \/ Len(Trim(username)) > MaxUsername
    \/ \E i \in 1..Len(users) : users[i].id # id /\ users[i].username = Trim(username)

\* one handled request of these handlers: generated is how the try block
\* around the generation ended ("none" when it was not entered)
StoreExchange(op, req, env, generated, status, error) ==
    [op |-> op, req |-> req, env |-> env, generated |-> generated,
     status |-> status, error |-> error]

\* a handler that answers 500 when the embedding cannot be generated
createPostRequiresEmbedding(userId, content, env) ==
    /\ res = NoExchange
    /\ LET username == UsernameOf(userId)
           embedding == generatePostEmbedding(content, username, env)
           answer(generated, status, error) ==
               StoreExchange("createPost", [userId |-> userId, content |-> content],
                             env, generated, status, error)
       IN  IF userId = NoUser
           THEN res' = answer("none", 401, <<"Unauthorized">>) /\ UNCHANGED <<posts, calls>>
           ELSE IF content = <<>>
           THEN res' = answer("none", 400, <<"Content is required">>)
                /\ UNCHANGED <<posts, calls>>
           ELSE /\ calls' = calls \o generateEmbeddingRequests(PostText(content, username), env)
                /\ IF Len(content) > MaxContent \/ embedding.t = "throw"
                   THEN res' = answer(embedding.t, 500, <<"Error creating post">>)
                        /\ UNCHANGED posts
                   ELSE /\ res' = answer(embedding.t, 201, <<>>)
                        /\ posts' = Append(posts,
                               PostDoc(Len(posts) + 1, userId, content,
                                       Embedding(embedding.v), PostText(content, username)))
    /\ UNCHANGED <<users, history, vecA, vecB, cosOut, newsIn, newsOut, textIn, textOut>>

\* POST /posts
createPost(userId, content, env) ==
    /\ res = NoExchange
    /\ LET username == UsernameOf(userId)
           embedding == generatePostEmbedding(content, username, env)
           answer(generated, status, error) ==
               StoreExchange("createPost", [userId |-> userId, content |-> content],
                             env, generated, status, error)
       IN  IF userId = NoUser
           THEN res' = answer("none", 401, <<"Unauthorized">>) /\ UNCHANGED <<posts, calls>>
           ELSE IF content = <<>>
           THEN res' = answer("none", 400, <<"Content is required">>)
                /\ UNCHANGED <<posts, calls>>
           ELSE /\ calls' = calls \o generateEmbeddingRequests(PostText(content, username), env)
                /\ IF Len(content) > MaxContent
                   THEN res' = answer(embedding.t, 500, <<"Post validation failed">>)
                        /\ UNCHANGED posts
                   ELSE /\ res' = answer(embedding.t, 201, <<>>)
                        /\ posts' = Append(posts,
                               PostDoc(Len(posts) + 1, userId, content,
                                       EmbeddingAfter(embedding, NullEmbedding),
                                       TextAfter(embedding, PostText(content, username), <<>>)))
    /\ UNCHANGED <<users, history, vecA, vecB, cosOut, newsIn, newsOut, textIn, textOut>>

\* PUT /posts/:id
updatePost(userId, id, content, env) ==
    /\ res = NoExchange
    /\ LET at == Position(posts, id)
           username == UsernameOf(userId)
           embedding == generatePostEmbedding(content, username, env)
           answer(generated, status, error) ==
               StoreExchange("updatePost",
                             [userId |-> userId, id |-> id, content |-> content],
                             env, generated, status, error)
       IN  IF userId = NoUser
           THEN res' = answer("none", 401, <<"Unauthorized">>) /\ UNCHANGED <<posts, calls>>
           ELSE IF at = 0
           THEN res' = answer("none", 404, <<"Post not found">>) /\ UNCHANGED <<posts, calls>>
           ELSE IF posts[at].userId # userId
           THEN res' = answer("none", 403, <<"Not authorized to update this post">>)
                /\ UNCHANGED <<posts, calls>>
           ELSE IF content = <<>> \/ content = posts[at].content
           THEN res' = answer("none", 200, <<>>) /\ UNCHANGED <<posts, calls>>
           ELSE /\ calls' = calls \o generateEmbeddingRequests(PostText(content, username), env)
                /\ IF Len(content) > MaxContent
                   THEN res' = answer(embedding.t, 500, <<"Post validation failed">>)
                        /\ UNCHANGED posts
                   ELSE /\ res' = answer(embedding.t, 200, <<>>)
                        /\ posts' = [posts EXCEPT ![at] =
                               PostDoc(id, userId, content,
                                       EmbeddingAfter(embedding, posts[at].embedding),
                                       TextAfter(embedding, PostText(content, username),
                                                 posts[at].embeddedText))]
    /\ UNCHANGED <<users, history, vecA, vecB, cosOut, newsIn, newsOut, textIn, textOut>>

\* POST /auth/register; a field of the body that is missing is <<>>
register(body, env) ==
    /\ res = NoExchange
    /\ LET username == Trim(body.username)
           email == ToLowerCase(Trim(body.email))
           embedding == generateUserEmbedding(username, email, env)
           answer(generated, status, error) ==
               StoreExchange("register", body, env, generated, status, error)
       IN  IF username = <<>> \/ email = <<>> \/ body.password = <<>>
           THEN res' = answer("none", 400, <<"Username, email, and password are required">>)
                /\ UNCHANGED <<users, calls>>
           ELSE IF ~IsEmail(email)
           THEN res' = answer("none", 400, <<"Invalid email format">>)
                /\ UNCHANGED <<users, calls>>
           ELSE IF Len(body.password) < MinPassword
           THEN res' = answer("none", 400, <<"Password must be at least 6 characters long">>)
                /\ UNCHANGED <<users, calls>>
           ELSE IF Len(username) < MinUsername \/ Len(username) > MaxRegisterUsername
           THEN res' = answer("none", 400, <<"Username must be between 3 and 50 characters">>)
                /\ UNCHANGED <<users, calls>>
           ELSE IF \E i \in 1..Len(users) :
                      users[i].email = email \/ users[i].username = username
           THEN res' = answer("none", 400,
                              <<"User with this email or username already exists">>)
                /\ UNCHANGED <<users, calls>>
           ELSE /\ calls' = calls \o generateEmbeddingRequests(UserText(username, email), env)
                /\ IF UserSaveFails(UserIds[Len(users) + 1], username)
                   THEN res' = answer(embedding.t, 500, <<"User validation failed">>)
                        /\ UNCHANGED users
                   ELSE /\ res' = answer(embedding.t, 201, <<>>)
                        /\ users' = Append(users,
                               UserDoc(UserIds[Len(users) + 1], username, email, NoGoogleId,
                                       EmbeddingAfter(embedding, NullEmbedding),
                                       TextAfter(embedding, UserText(username, email), <<>>)))
    /\ UNCHANGED <<posts, history, vecA, vecB, cosOut, newsIn, newsOut, textIn, textOut>>

\* what googleClient.verifyIdToken gives: a rejection (verified = FALSE) or
\* a payload; a field of the payload that is missing is <<>> or NoGoogleId
Ticket(verified, email, sub, name) ==
    [verified |-> verified, email |-> email, sub |-> sub, name |-> name]

\* POST /auth/google
googleAuth(ticket, env) ==
    /\ res = NoExchange
    /\ LET at == IF \E i \in 1..Len(users) :
                       users[i].googleId = ticket.sub \/ users[i].email = ticket.email
                 THEN CHOOSE i \in 1..Len(users) :
                          /\ users[i].googleId = ticket.sub \/ users[i].email = ticket.email
                          /\ \A h \in 1..(i - 1) :
                                users[h].googleId # ticket.sub /\ users[h].email # ticket.email
                 ELSE 0
           newUsername == IF ticket.name # <<>> THEN ticket.name ELSE BeforeAt(ticket.email)
           embedding == generateUserEmbedding(newUsername, ticket.email, env)
           answer(generated, status, error) ==
               StoreExchange("googleAuth", ticket, env, generated, status, error)
       IN  IF ~ticket.verified
           THEN res' = answer("none", 500, <<"Google authentication failed">>)
                /\ UNCHANGED <<users, calls>>
           ELSE IF ticket.email = <<>> \/ ticket.sub = NoGoogleId
           THEN res' = answer("none", 400, <<"Invalid Google token">>)
                /\ UNCHANGED <<users, calls>>
           ELSE IF at = 0
           THEN /\ calls' = calls \o generateEmbeddingRequests(
                                         UserText(newUsername, ticket.email), env)
                /\ IF UserSaveFails(UserIds[Len(users) + 1], newUsername)
                   THEN res' = answer(embedding.t, 500, <<"User validation failed">>)
                        /\ UNCHANGED users
                   ELSE /\ res' = answer(embedding.t, 200, <<>>)
                        /\ users' = Append(users,
                               UserDoc(UserIds[Len(users) + 1], Trim(newUsername),
                                       ToLowerCase(Trim(ticket.email)), ticket.sub,
                                       EmbeddingAfter(embedding, NullEmbedding),
                                       TextAfter(embedding,
                                                 UserText(newUsername, ticket.email), <<>>)))
           ELSE /\ res' = answer("none", 200, <<>>)
                /\ users' = IF users[at].googleId = NoGoogleId
                            THEN [users EXCEPT ![at].googleId = ticket.sub]
                            ELSE users
                /\ UNCHANGED calls
    /\ UNCHANGED <<posts, history, vecA, vecB, cosOut, newsIn, newsOut, textIn, textOut>>

\* PUT /users/me; a body without username has username = <<>>
updateCurrentUser(userId, username, env) ==
    /\ res = NoExchange
    /\ LET at == Position(users, userId)
           embedding == generateUserEmbedding(username, users[at].email, env)
           answer(generated, status, error) ==
               StoreExchange("updateCurrentUser", [userId |-> userId, username |-> username],
                             env, generated, status, error)
       IN  IF userId = NoUser
           THEN res' = answer("none", 401, <<"Unauthorized">>) /\ UNCHANGED <<users, calls>>
           ELSE IF at = 0
           THEN res' = answer("none", 404, <<"User not found">>) /\ UNCHANGED <<users, calls>>
           ELSE IF username = <<>>
           THEN res' = answer("none", 200, <<>>) /\ UNCHANGED <<users, calls>>
           ELSE IF \E i \in 1..Len(users) : users[i].username = username /\ users[i].id # userId
           THEN res' = answer("none", 400, <<"Username already taken">>)
                /\ UNCHANGED <<users, calls>>
           ELSE IF username = users[at].username
           THEN res' = answer("none", 200, <<>>) /\ UNCHANGED <<users, calls>>
           ELSE /\ calls' = calls \o generateEmbeddingRequests(
                                         UserText(username, users[at].email), env)
                /\ IF UserSaveFails(userId, username)
                   THEN res' = answer(embedding.t, 500, <<"User validation failed">>)
                        /\ UNCHANGED users
                   ELSE /\ res' = answer(embedding.t, 200, <<>>)
                        /\ users' = [users EXCEPT ![at] =
                               UserDoc(userId, Trim(username), users[at].email,
                                       users[at].googleId,
                                       EmbeddingAfter(embedding, users[at].embedding),
                                       TextAfter(embedding,
                                                 UserText(username, users[at].email),
                                                 users[at].embeddedText))]
    /\ UNCHANGED <<posts, history, vecA, vecB, cosOut, newsIn, newsOut, textIn, textOut>>

\* the response is sent; the next request gets a response object of its own
NextRequest ==
    /\ res # NoExchange
    /\ res' = NoExchange
    /\ UNCHANGED <<posts, users, history, calls, vecA, vecB, cosOut,
                   newsIn, newsOut, textIn, textOut>>

(***************************************************************************)
(* Specification of the store: requests to the five handlers and to the    *)
(* two entity searches, one after the other, until MaxRequests provider    *)
(* calls have been made.  The store starts empty, or with one registered   *)
(* user and one post of hers, both embedded.                               *)
(***************************************************************************)
MaxPosts == 2
MaxRequests == 2

Ann == <<"a", "n", "n">>
Bob == <<"b", "o", "b">>
AnnMail == <<"a", "n", "n", "@", "x", ".", "i", "o">>
BobMail == <<"b", "o", "b", "@", "x", ".", "i", "o">>
Hello == <<"h", "i">>
Bye == <<"b", "y", "e">>

StoreEnvs == {Env(TRUE, FALSE, <<>>), Env(TRUE, TRUE, V(1, 0))}

Contents == {<<>>, Hello, Bye, [i \in 1..(MaxContent + 1) |-> "a"]}

Bodies ==
    {[username |-> u, email |-> e, password |-> p] :
        u \in {<<" ">> \o Bob, <<"a", "l">>},
        e \in {<<"B", "o", "b", "@", "X", ".", "i", "o", " ">>, <<"b", "o", "b", "@", "x">>},
        p \in {<<"s", "e", "c", "r", "e", "t">>, <<"a", "b", "c">>}}
    \cup {[username |-> <<>>, email |-> BobMail, password |-> <<"s", "e", "c", "r", "e", "t">>],
          [username |-> Ann, email |-> BobMail, password |-> <<"s", "e", "c", "r", "e", "t">>],
          [username |-> [i \in 1..(MaxUsername + 1) |-> "b"], email |-> BobMail,
           password |-> <<"s", "e", "c", "r", "e", "t">>]}

Tickets ==
    {Ticket(FALSE, <<>>, NoGoogleId, <<>>),
     Ticket(TRUE, <<>>, "g0", <<>>),
     Ticket(TRUE, AnnMail, "g1", Ann),
     Ticket(TRUE, BobMail, "g2", <<>>),
     Ticket(TRUE, BobMail, "g2", <<"a", "l">>)}

SeededUsers == <<UserDoc("u1", Ann, AnnMail, NoGoogleId, Embedding(V(1, 0)), UserText(Ann, AnnMail))>>
SeededPosts == <<PostDoc(1, "u1", Hello, Embedding(V(1, 0)), PostText(Hello, Ann))>>

StoreSearch == Request("u1", TRUE, <<"h", "i">>, Absent, Absent)

InitStore ==
    /\ \/ posts = <<>> /\ users = <<>>
       \/ posts = SeededPosts /\ users = SeededUsers
    /\ history = <<>> /\ res = NoExchange /\ calls = <<>>
    /\ vecA = <<>> /\ vecB = <<>> /\ cosOut = NotCalled
    /\ NewsIdle /\ TextIdle

NextStore ==
    \/ /\ Len(calls) < MaxRequests /\ Len(posts) < MaxPosts
       /\ \E userId \in {NoUser, "u1", "u2"}, content \in Contents, env \in StoreEnvs :
             createPost(userId, content, env)
    \/ /\ Len(calls) < MaxRequests
       /\ \E userId \in {NoUser, "u1", "u2"}, id \in 1..(MaxPosts + 1), content \in Contents,
             env \in StoreEnvs : updatePost(userId, id, content, env)
    \/ /\ Len(calls) < MaxRequests
       /\ \E body \in Bodies, env \in StoreEnvs : register(body, env)
    \/ /\ Len(calls) < MaxRequests
       /\ \E ticket \in Tickets, env \in StoreEnvs : googleAuth(ticket, env)
    \/ /\ Len(calls) < MaxRequests
       /\ \E userId \in {NoUser, "u1", "u2"}, username \in {<<>>, Ann, Bob, <<"a", "l">>},
             env \in StoreEnvs : updateCurrentUser(userId, username, env)
    \/ /\ Len(calls) < MaxRequests
       /\ \E env \in StoreEnvs : searchPosts(StoreSearch, env)
    \/ /\ Len(calls) < MaxRequests
       /\ \E env \in StoreEnvs : searchUsers(StoreSearch, env)
    \/ NextRequest

SpecStore == InitStore /\ [][NextStore]_vars

(***************************************************************************)
(* Properties of cosineSimilarity (checked under SpecCos).                 *)
(***************************************************************************)
Called == cosOut # NotCalled

\* C1: for every pair of vectors whose lengths differ, whatever they hold,
\* cosineSimilarity throws the dimension-mismatch error and returns no value.
C1_MismatchThrows ==
    (Called /\ Len(vecA) # Len(vecB))
        => (cosOut.t = "throw" /\ cosOut.msg = DimensionMismatch)

\* an all-zero vector against the empty vector has thrown
C1_Witness ==
    /\ Called /\ cosOut.t = "throw"
    /\ Len(vecA) = MaxDim /\ IsZeroVector(vecA) /\ vecB = <<>>

\* C2: for equal lengths, a zero vector on either side (both zero and both
\* empty included) makes cosineSimilarity return exactly 0: no error, no NaN.
C2_ZeroNormGivesZero ==
    (Called /\ Len(vecA) = Len(vecB) /\ (IsZeroVector(vecA) \/ IsZeroVector(vecB)))
        => cosOut = Returned(SimZero)

\* a zero vector against a vector with a huge component has returned 0
C2_Witness ==
    /\ Called /\ cosOut = Returned(SimZero)
    /\ Len(vecA) = MaxDim /\ IsZeroVector(vecA)
    /\ Len(vecB) = MaxDim /\ \E i \in 1..Len(vecB) : vecB[i] = Huge

\* C3: cosineSimilarity(v, v) is 1, up to rounding, for every vector v that
\* is not the zero vector.  (IsOne compares the quotient as a real number,
\* so the rounding of a last bit never counts against the statement.)
C3_SelfSimilarityIsOne ==
    (Called /\ vecA = vecB /\ ~IsZeroVector(vecA))
        => (cosOut.t = "return" /\ IsOne(cosOut.v))

(***************************************************************************)
(* Properties of the entity search (checked under Spec).                   *)
(***************************************************************************)
Ranked == res.op \in {"posts", "users"} /\ res.status = 200

\* the request passed both checks and the query was embedded
Embedded ==
    /\ res.op \in {"posts", "users"} /\ res.req.userId # NoUser
    /\ res.req.isString /\ Trim(res.req.query) # <<>>
    /\ res.env.key /\ res.env.ok

Searched == IF res.op = "posts" THEN posts ELSE users

\* the stored vector of a document, if it has one
Stored(d) == d.embedding.v
Vectorless(d) == d.embedding.isNull \/ Stored(d) = <<>>
Comparable(d) == ~Vectorless(d) /\ Len(Stored(d)) = Len(res.env.v)

\* the real-valued similarity of a comparable document to the query vector
Similarity(d) == cosineSimilarity(res.env.v, Stored(d)).v

\* the fetched candidates that have a vector and reach the threshold
Fetched == {res.fetched[k] : k \in 1..Len(res.fetched)}
Qualifying ==
    {d \in Fetched :
        Comparable(d) /\ GreaterOrEqual(Similarity(d), ThresholdOf(res.req))}

ResultIds == {res.results[i].id : i \in 1..Len(res.results)}

Min(a, b) == IF a < b THEN a ELSE b

\* C4: every result of an entity search has similarity >= the threshold of
\* the request (0.7 by default), and the threshold filter drops no candidate
\* that has a vector and reaches the threshold.
C4_ThresholdFilter ==
    Ranked =>
        /\ \A i \in 1..Len(res.results) :
              GreaterOrEqual(res.results[i].similarity, ThresholdOf(res.req))
        /\ ResultIds \subseteq {d.id : d \in Qualifying}
        /\ Len(res.results) < LimitOf(res.req)
              => {d.id : d \in Qualifying} \subseteq ResultIds

\* a search with threshold 4/5 that kept a candidate at exactly 4/5 and
\* dropped one below it
C4_Witness ==
    /\ Ranked /\ res.req.threshold = Real(Rat(4, 5))
    /\ \E i \in 1..Len(res.results) :
          SimCompare(res.results[i].similarity, Rat(4, 5)) = 0
    /\ \E d \in Fetched : Comparable(d) /\ d \notin Qualifying

\* C5: results are in non-increasing order of similarity, and results of
\* equal similarity are in the order their candidates were fetched.
C5_SortedStable ==
    Ranked =>
        \A i, j \in 1..Len(res.results) :
            i < j =>
                /\ SimCompare(res.results[i].similarity, res.results[j].similarity)
                      \in {0, 1}
                /\ SimCompare(res.results[i].similarity, res.results[j].similarity) = 0
                      => res.results[i].id < res.results[j].id

\* two tied results in fetch order in front of a lower one that was fetched first
C5_Witness ==
    /\ Ranked /\ Len(res.results) = 3
    /\ SimCompare(res.results[1].similarity, res.results[2].similarity) = 0
    /\ SimCompare(res.results[2].similarity, res.results[3].similarity) = 1
    /\ res.results[3].id < res.results[1].id
    /\ res.results[1].id < res.results[2].id

\* C6: for a positive limit (10 by default) the search returns min(limit, n)
\* of the n candidates that passed the threshold, and none it leaves out has
\* a higher similarity than one it returns.
C6_LimitTruncates ==
    (Ranked /\ LimitOf(res.req) > 0) =>
        /\ Len(res.results) = Min(LimitOf(res.req), Cardinality(Qualifying))
        /\ Cardinality(ResultIds) = Len(res.results)
        /\ \A d \in Qualifying :
              d.id \notin ResultIds =>
                \A i \in 1..Len(res.results) :
                    SimCompare(Similarity(d), res.results[i].similarity) \in {-1, 0}

\* limit 1 cut a list of at least two qualifying candidates of different similarity
C6_Witness ==
    /\ Ranked /\ LimitOf(res.req) = 1 /\ Len(res.results) = 1
    /\ \E d \in Qualifying : SimCompare(Similarity(d), res.results[1].similarity) = -1

\* C7: a candidate with no stored vector (null or empty) is left out of the
\* ranking and never makes the search fail: when every stored vector has the
\* query's length the search succeeds and returns the ranked rest.
C7_VectorlessSkipped ==
    (Embedded /\ \A k \in 1..Len(Searched) : Vectorless(Searched[k]) \/ Comparable(Searched[k]))
        => /\ Ranked
           /\ \A k \in 1..Len(Searched) :
                 Vectorless(Searched[k]) => Searched[k].id \notin ResultIds
           /\ Len(res.results) = Min(LimitOf(res.req), Cardinality(Qualifying))

\* a search over a null, an empty and a real embedding returned the last one
C7_Witness ==
    /\ Ranked /\ Len(res.results) = 1
    /\ \E k \in 1..Len(Searched) : Searched[k].embedding.isNull
    /\ \E k \in 1..Len(Searched) :
          ~Searched[k].embedding.isNull /\ Stored(Searched[k]) = <<>>

\* C8: a candidate whose stored vector is not as long as the query vector is
\* left out of the results and the search still succeeds.
C8_MismatchExcluded ==
    (Embedded /\ \E k \in 1..Len(Searched) :
                    ~Vectorless(Searched[k]) /\ ~Comparable(Searched[k]))
        => /\ Ranked
           /\ \A k \in 1..Len(Searched) :
                 ~Comparable(Searched[k]) => Searched[k].id \notin ResultIds

(***************************************************************************)
(* Properties of searchNews (checked under SpecNews).                      *)
(***************************************************************************)
NewsCalled == newsOut # NewsNotCalled

\* the call got as far as a non-empty text payload
GotText ==
    /\ NewsCalled /\ newsIn.env.key /\ newsIn.env.resolved
    /\ newsIn.query.t = "str"
    /\ Len(Trim(newsIn.query.s)) >= MinQueryLength
    /\ Len(Trim(newsIn.query.s)) <= MaxQueryLength
    /\ \/ newsIn.env.output_text.t = "str" /\ newsIn.env.output_text.s # <<>>
       \/ /\ ~IsTruthy(newsIn.env.output_text)
          /\ newsIn.env.output.t = "str" /\ newsIn.env.output.s # <<>>

PayloadText ==
    IF newsIn.env.output_text.t = "str" /\ newsIn.env.output_text.s # <<>>
    THEN newsIn.env.output_text.s
    ELSE newsIn.env.output.s

\* the records a payload that is JSON holds in an order: the list it is, or
\* the list under the first of its articles, results and news that is one
RecordList(text) ==
    LET whole == JSONParse(text)
        listed(v, key) == v.t = "obj" /\ Get(v, key).t = "arr"
    IN  IF ~whole.ok THEN <<>>
        ELSE IF whole.v.t = "arr" THEN whole.v.items
        ELSE IF listed(whole.v, K.articles) THEN Get(whole.v, K.articles).items
        ELSE IF listed(whole.v, K.results) THEN Get(whole.v, K.results).items
        ELSE IF listed(whole.v, K.news) THEN Get(whole.v, K.news).items
        ELSE <<>>

\* C9: searchNews never returns more than 5 articles, and from a payload
\* that holds more than 5 records it returns the first 5 in payload order.
C9_FirstFiveOfPayload ==
    (GotText /\ newsOut.t = "return") =>
        /\ Len(newsOut.v) <= MaxArticles
        /\ Len(RecordList(PayloadText)) > MaxArticles =>
              /\ Len(newsOut.v) = MaxArticles
              /\ \A i \in 1..MaxArticles :
                    newsOut.v[i].title = Get(RecordList(PayloadText)[i], K.title)

\* C10: a non-empty text payload without a "{" .. "}" span, or whose span
\* is not valid JSON, makes searchNews return an empty list, not fail.
C10_UnparsableGivesEmpty ==
    (GotText /\ (~MatchBraces(PayloadText).ok
                 \/ ~JSONParse(MatchBraces(PayloadText).s).ok))
        => newsOut = Succeeded(<<>>)

\* a payload with a span that does not parse has given the empty list
C10_Witness ==
    /\ GotText /\ newsOut = Succeeded(<<>>)
    /\ MatchBraces(PayloadText).ok
    /\ ~JSONParse(MatchBraces(PayloadText).s).ok

\* a payload without any span has given the empty list
C10_WitnessNoSpan ==
    /\ GotText /\ newsOut = Succeeded(<<>>)
    /\ ~MatchBraces(PayloadText).ok


\* the payload, when the whole of it is a JSON list
WholeList ==
    IF JSONParse(PayloadText).ok /\ JSONParse(PayloadText).v.t = "arr"
    THEN JSONParse(PayloadText).v.items
    ELSE <<>>

\* C11: when the payload is a JSON list of article records, searchNews takes
\* that list as the article list: it returns one article per record, up to
\* 5, in the order of the list.
C11_BareListUsed ==
    (GotText /\ WholeList # <<>>) =>
        /\ newsOut.t = "return"
        /\ Len(newsOut.v) = Min(Len(WholeList), MaxArticles)
        /\ \A i \in 1..Len(newsOut.v) : newsOut.v[i].title = Get(WholeList[i], K.title)


\* letters and digits: text the lenient sanitizer has nothing to change in
PlainChars ==
    {"A", "B", "C", "D", "E", "F", "G", "H", "l", "u", "a", "b", "c", "x", "y", "z"}
IsPlain(v) ==
    /\ v.t = "str" /\ v.s # <<>> /\ Len(v.s) <= MaxSource
    /\ \A i \in 1..Len(v.s) : v.s[i] \in PlainChars

\* the value a record gives a field: under its lower-case name, failing that
\* under its capitalised name, failing that the default
FieldOf(rec, lower, capital, default) ==
    IF Get(rec, lower).t # "undefined" THEN Get(rec, lower)
    ELSE IF Get(rec, capital).t # "undefined" THEN Get(rec, capital)
    ELSE JStr(default)

\* a record whose five fields are each missing or plain text
PlainRecord(rec) ==
    /\ rec.t = "obj"
    /\ \A k \in {K.title, K.Title, K.summary, K.Summary, K.relevance, K.Relevance,
                 K.category, K.Category, K.source, K.Source} :
          Get(rec, k).t = "undefined" \/ IsPlain(Get(rec, k))

\* the records of a payload that is an object holding a list of them
ListedRecords == IF WholeList = <<>> THEN RecordList(PayloadText) ELSE <<>>

\* C12: each of title, summary, relevance, category and source of a returned
\* article is the record's value under the lower-case name, failing that
\* under the capitalised name, and the fixed default when the record has
\* neither.
C12_FieldNamesAndDefaults ==
    (GotText /\ ListedRecords # <<>>
             /\ \A i \in 1..Len(ListedRecords) : PlainRecord(ListedRecords[i]))
        => /\ newsOut.t = "return"
           /\ Len(newsOut.v) = Min(Len(ListedRecords), MaxArticles)
           /\ \A i \in 1..Len(newsOut.v) :
                 LET rec == ListedRecords[i]
                     art == newsOut.v[i]
                 IN  /\ art.title = FieldOf(rec, K.title, K.Title, Fallback.title)
                     /\ art.summary = FieldOf(rec, K.summary, K.Summary, Fallback.summary)
                     /\ art.relevance = FieldOf(rec, K.relevance, K.Relevance, Fallback.relevance)
                     /\ art.category = FieldOf(rec, K.category, K.Category, Fallback.category)
                     /\ art.source = FieldOf(rec, K.source, K.Source, Fallback.source)

\* a record with a capitalised title only, a summary under both names and
\* no source has been returned
C12_Witness ==
    /\ GotText /\ newsOut.t = "return" /\ Len(newsOut.v) = 1 /\ Len(ListedRecords) = 1
    /\ PlainRecord(ListedRecords[1])
    /\ Get(ListedRecords[1], K.title).t = "undefined"
    /\ Get(ListedRecords[1], K.Title).t = "str"
    /\ Get(ListedRecords[1], K.summary).t = "str"
    /\ Get(ListedRecords[1], K.Summary).t = "str"
    /\ Get(ListedRecords[1], K.source).t = "undefined"
    /\ Get(ListedRecords[1], K.Source).t = "undefined"
    /\ newsOut.v[1].title = Get(ListedRecords[1], K.Title)
    /\ newsOut.v[1].source = JStr(Fallback.source)


\* text the lenient sanitizer finds nothing to strip from
Stripped(v) == v.t = "str" => (RemoveControl(v.s) = v.s /\ RemoveScripts(v.s) = v.s)

\* C13: no field of a returned article (title, summary, relevance, category,
\* url, publishedDate, source) carries a control character or a
\* <script>...</script> block.
C13_EveryFieldSanitized ==
    (GotText /\ newsOut.t = "return") =>
        \A i \in 1..Len(newsOut.v) :
            /\ Stripped(newsOut.v[i].title)
            /\ Stripped(newsOut.v[i].summary)
            /\ Stripped(newsOut.v[i].relevance)
            /\ Stripped(newsOut.v[i].category)
            /\ Stripped(newsOut.v[i].url)
            /\ Stripped(newsOut.v[i].publishedDate)
            /\ Stripped(newsOut.v[i].source)


(***************************************************************************)
(* Properties of the sanitizers (checked under SpecNews).                  *)
(***************************************************************************)
Applied(fn) == textIn.fn = fn /\ textOut # NewsNotCalled

\* the number of full stops in a text
Dots(s) == Cardinality({i \in 1..Len(s) : s[i] = "."})

EndsWithMarker(s) == Len(s) >= 3 /\ SubSeq(s, Len(s) - 2, Len(s)) = <<".", ".", ".">>

\* C14: sanitizeApiText on a text whose trimmed length exceeds maxLength
\* returns a text that ends with "..." and is at most maxLength + 3 long; on
\* a text whose trimmed length is at most maxLength it adds no marker (the
\* result has no more full stops than the text).  Every title searchNews
\* returns is at most 203 long.
C14_TruncationMarker ==
    /\ (Applied("sanitizeApiText") /\ textIn.text.t = "str") =>
          IF Len(Trim(textIn.text.s)) > textIn.maxLength
          THEN /\ EndsWithMarker(textOut.v)
               /\ Len(textOut.v) <= textIn.maxLength + 3
          ELSE /\ Dots(textOut.v) <= Dots(textIn.text.s)
               /\ Len(textOut.v) <= textIn.maxLength
    /\ (GotText /\ newsOut.t = "return") =>
          \A i \in 1..Len(newsOut.v) : Len(newsOut.v[i].title.s) <= MaxTitle + 3

\* a text of 300 letters has come back from sanitizeApiText(text, 200) as 200
\* letters and the marker
C14_Witness ==
    /\ Applied("sanitizeApiText") /\ textIn.maxLength = MaxTitle
    /\ Len(textIn.text.s) = 300
    /\ Len(textOut.v) = MaxTitle + 3 /\ EndsWithMarker(textOut.v)

\* a title of 300 letters has come back from searchNews cut to 203
C14_WitnessTitle ==
    /\ GotText /\ newsOut.t = "return" /\ Len(newsOut.v) = 1
    /\ Len(ListedRecords) = 1
    /\ Get(ListedRecords[1], K.title).t = "str"
    /\ Len(Get(ListedRecords[1], K.title).s) = 300
    /\ Len(newsOut.v[1].title.s) = MaxTitle + 3


RejectedAs(out, kind) == out.t = "throw" /\ Includes(out.error.message, kind)

\* C15: sanitizeInput rejects a query as too short exactly when its trimmed
\* length is below 2 and as too long exactly when its trimmed length is
\* above 500, and accepts every query of trimmed length 2 to 500.
C15_LengthLimits ==
    (Applied("sanitizeInput") /\ textIn.text.t = "str") =>
        LET n == Len(Trim(textIn.text.s))
        IN  /\ RejectedAs(textOut, "Query too short") <=> n < MinQueryLength
            /\ RejectedAs(textOut, "Query too long") <=> n > MaxQueryLength
            /\ (n >= MinQueryLength /\ n <= MaxQueryLength) => textOut.t = "return"

\* C15 as amended: the empty query is rejected as invalid input, not as too
\* short; sanitizeInput rejects a query as too short exactly when it is not
\* empty and its trimmed length is below 2, as too long exactly when its
\* trimmed length is above 500, and accepts every query of trimmed length 2
\* to 500.
C15_LengthLimitsNonEmpty ==
    (Applied("sanitizeInput") /\ textIn.text.t = "str") =>
        LET n == Len(Trim(textIn.text.s))
        IN  /\ RejectedAs(textOut, "Query too short")
                  <=> (textIn.text.s # <<>> /\ n < MinQueryLength)
            /\ RejectedAs(textOut, "Invalid input") <=> textIn.text.s = <<>>
            /\ RejectedAs(textOut, "Query too long") <=> n > MaxQueryLength
            /\ (n >= MinQueryLength /\ n <= MaxQueryLength) => textOut.t = "return"

\* a query of 500 letters between spaces has been accepted
C15_Witness ==
    /\ Applied("sanitizeInput") /\ textIn.text.t = "str"
    /\ Len(textIn.text.s) > MaxQueryLength
    /\ Len(Trim(textIn.text.s)) = MaxQueryLength
    /\ textOut.t = "return" /\ Len(textOut.v) = MaxQueryLength

\* the escape sequences of sanitizeInput
EscapeSequences ==
    {<<"&", "a", "m", "p", ";">>, <<"&", "l", "t", ";">>, <<"&", "g", "t", ";">>,
     <<"&", "q", "u", "o", "t", ";">>, <<"&", "#", "x", "2", "7", ";">>,
     <<"&", "#", "x", "2", "F", ";">>}

StartsEscape(s, i) ==
    \E e \in EscapeSequences : i + Len(e) - 1 <= Len(s) /\ SubSeq(s, i, i + Len(e) - 1) = e

ProviderFailed ==
    /\ NewsCalled /\ newsIn.env.key /\ ~newsIn.env.resolved
    /\ newsIn.query.t = "str"
    /\ Len(Trim(newsIn.query.s)) >= MinQueryLength
    /\ Len(Trim(newsIn.query.s)) <= MaxQueryLength

\* C17: a provider failure of status 401 makes searchNews fail with a
\* message that contains "Invalid API key", one of status 429 with a message
\* that contains "Rate limit exceeded", whatever the failure's own message.
C17_AuthAndRateLimit ==
    ProviderFailed =>
        /\ newsIn.env.error.status = 401 => RejectedAs(newsOut, "Invalid API key")
        /\ newsIn.env.error.status = 429 => RejectedAs(newsOut, "Rate limit exceeded")

\* C18: a provider failure of status 404, or whose message contains "model",
\* makes searchNews fail with a message that contains "Model not available".
C18_ModelNotAvailable ==
    (ProviderFailed /\ (newsIn.env.error.status = 404
                        \/ Includes(newsIn.env.error.message, "model")))
        => RejectedAs(newsOut, "Model not available")


\* the provider call was made and returned
ProviderReturned ==
    /\ NewsCalled /\ newsIn.env.key /\ newsIn.env.resolved
    /\ newsIn.query.t = "str"
    /\ Len(Trim(newsIn.query.s)) >= MinQueryLength
    /\ Len(Trim(newsIn.query.s)) <= MaxQueryLength

\* a text the response carries: a string that is not empty
IsTextPayload(v) == v.t = "str" /\ v.s # <<>>

\* C19: when the provider call returns and neither output_text nor output
\* is a text, searchNews fails with the error "No response from OpenAI Web
\* Search", and the caller gets that message as it was thrown.
C19_NoResponse ==
    (ProviderReturned /\ ~IsTextPayload(newsIn.env.output_text)
                      /\ ~IsTextPayload(newsIn.env.output))
        => /\ newsOut.t = "throw"
           /\ newsOut.error.message = <<"No response from OpenAI Web Search">>


(***************************************************************************)
(* Validation comes before every provider request (checked under          *)
(* SpecNews); calls is the list of the requests issued so far.             *)
(***************************************************************************)
\* the text given to generateEmbedding is empty or only whitespace
BlankText == textIn.fn = "generateEmbedding" /\ Len(Trim(textIn.text.s)) = 0

\* the query given to searchNews is a string whose trimmed length is out of range
QueryOutOfRange ==
    /\ newsIn # NoNewsCall /\ newsIn.query.t = "str"
    /\ \/ Len(Trim(newsIn.query.s)) < MinQueryLength
       \/ Len(Trim(newsIn.query.s)) > MaxQueryLength

RejectedByEmbedding ==
    textOut.t = "throw" /\ Includes(textOut.msg, "Text is required for embedding generation")

RejectedBySanitizer ==
    /\ newsOut.t = "throw"
    /\ newsOut.error.message = sanitizeInput(newsIn.query).error.message
    /\ \/ RejectedAs(newsOut, "Invalid input")
       \/ RejectedAs(newsOut, "Query too short")
       \/ RejectedAs(newsOut, "Query too long")

\* C20 as stated: text that fails validation is rejected with the validation
\* error, and no request is ever issued to a provider for it.
C20_RejectedBeforeProvider ==
    /\ BlankText => (calls = <<>> /\ (Applied("generateEmbedding") => RejectedByEmbedding))
    /\ QueryOutOfRange => (calls = <<>> /\ (NewsCalled => RejectedBySanitizer))

\* C20 amended: no request is ever issued to a provider for text that fails
\* validation; the call fails with the validation error when an API key is
\* configured, and with the missing-key error when none is.
C20_RejectedBeforeProviderKeyed ==
    /\ BlankText =>
          /\ calls = <<>>
          /\ Applied("generateEmbedding") =>
                IF textIn.env.key THEN RejectedByEmbedding
                ELSE textOut.t = "throw"
                     /\ Includes(textOut.msg, "OpenAI API key not configured")
    /\ QueryOutOfRange =>
          /\ calls = <<>>
          /\ NewsCalled =>
                IF newsIn.env.key THEN RejectedBySanitizer
                ELSE RejectedAs(newsOut, "OpenAI API key not configured")

C20_Witness ==
    /\ BlankText /\ textIn.text.s # <<>> /\ textIn.env.key
    /\ Applied("generateEmbedding") /\ RejectedByEmbedding /\ calls = <<>>

C20_WitnessQuery ==
    /\ QueryOutOfRange /\ Len(Trim(newsIn.query.s)) > MaxQueryLength /\ newsIn.env.key
    /\ NewsCalled /\ RejectedBySanitizer /\ calls = <<>>


(***************************************************************************)
(* Properties of the three search routes (checked under Spec).             *)
(***************************************************************************)
\* a news search request was answered
NewsAnswered == res.op = "news"

\* the body of the answered news request holds a query that is a string and
\* is not blank: it passes the controller's own check
NewsQueryGiven ==
    /\ NewsAnswered /\ res.req.userId # NoUser
    /\ res.req.query.t = "str" /\ Len(Trim(res.req.query.s)) > 0

\* C21: a news search request whose query passes the non-empty check but is
\* shorter than 2 or longer than 500 characters once trimmed is answered
\* with a 4xx status, not with a server error.
C21_ValidationIsClientError ==
    (NewsQueryGiven /\ (Len(Trim(res.req.query.s)) < MinQueryLength
                        \/ Len(Trim(res.req.query.s)) > MaxQueryLength))
        => res.status \in 400..499


\* C22: every successful entity search, of posts and of users alike, has
\* persisted exactly one history entry for the caller when it responds, and
\* the entry's results hold only the identifier and the similarity of each
\* result.
C22_OneEntryPerEntitySearch ==
    Ranked =>
        /\ Len(history) = 1
        /\ history[1].userId = res.req.userId
        /\ Len(history[1].results) = Len(res.results)
        /\ \A i \in 1..Len(res.results) :
              /\ DOMAIN history[1].results[i] \in {{"postId", "similarity"},
                                                   {"userId", "similarity"}}
              /\ history[1].results[i].similarity = res.results[i].similarity


\* a search request was answered with a failure
SearchFailed == res.op # "none" /\ res.status # 200

\* C23: a search request that fails (no user, invalid query, embedding,
\* provider or ranking failure) leaves the search history as it was, and an
\* entry is in the history only when the search was answered 200, for news
\* and entity searches alike.
C23_FailureLeavesHistory ==
    /\ SearchFailed => history = <<>>
    /\ history # <<>> => (res.status = 200 /\ Len(history) = 1)

\* a news search whose provider call was made and rejected
C23_Witness ==
    /\ NewsAnswered /\ res.status = 500 /\ Includes(res.error, "Rate limit exceeded")
    /\ calls # <<>> /\ history = <<>>

\* a post search whose ranking failed on vectors of different lengths
C23_WitnessRanking ==
    /\ res.op = "posts" /\ res.status = 500 /\ res.fetched # <<>>
    /\ calls # <<>> /\ history = <<>>


\* C24: the query stored in a history entry of a news search is the string
\* the strict sanitizer produced for the provider call, not the caller's raw
\* text.
C24_StoredQuerySanitized ==
    (NewsAnswered /\ res.status = 200) =>
        /\ Len(history) = 1 /\ Len(calls) = 1
        /\ history[1].query = calls[1].input


\* C25: every successful search response, of news, posts and users, carries
\* a count equal to the number of results it returns, and echoes the
\* trimmed query.
C25_CountAndQueryEchoed ==
    (res.op # "none" /\ res.status = 200) =>
        /\ "count" \in DOMAIN res
        /\ res.count = Len(res.results)
        /\ res.query = Trim(IF NewsAnswered THEN res.req.query.s ELSE res.req.query)



(***************************************************************************)
(* Properties of the payload formats (checked under SpecNews).             *)
(***************************************************************************)
\* the payload, when the whole of it is a JSON object
WholeObject ==
    IF JSONParse(PayloadText).ok /\ JSONParse(PayloadText).v.t = "obj"
    THEN JSONParse(PayloadText).v
    ELSE Undefined

\* the first of articles, results and news under which the object holds a
\* list, or none
FirstListField(obj) ==
    IF Get(obj, K.articles).t = "arr" THEN K.articles
    ELSE IF Get(obj, K.results).t = "arr" THEN K.results
    ELSE IF Get(obj, K.news).t = "arr" THEN K.news
    ELSE <<>>

\* an object whose title field holds text
Titled(v) == v.t = "obj" /\ Get(v, K.title).t = "str" /\ Get(v, K.title).s # <<>>

\* the places of the titled objects among the values of an object
TitledValues(obj) == {p \in 1..Len(obj.vals) : Titled(obj.vals[p])}

TitlesOf(articles) == [i \in 1..Len(articles) |-> articles[i].title]

\* C27: from a payload that parses to an object, the article list is the
\* list under the first of articles, results and news that holds a list
\* (an empty list included); only when none of the three holds a list are
\* the values of the object that are objects with a title collected, and
\* nothing else.
C27_ListFieldOrder ==
    (GotText /\ WholeObject.t = "obj") =>
        LET field == FirstListField(WholeObject)
            list == Get(WholeObject, field).items
        IN  IF field # <<>>
            THEN (/\ Len(list) <= MaxArticles
                  /\ \A i \in 1..Len(list) : PlainRecord(list[i]) /\ Titled(list[i]))
                    => /\ newsOut.t = "return"
                       /\ TitlesOf(newsOut.v) = [i \in 1..Len(list) |-> Get(list[i], K.title)]
            ELSE (Cardinality(TitledValues(WholeObject)) <= MaxArticles
                  /\ \A p \in 1..Len(WholeObject.vals) :
                        Titled(WholeObject.vals[p]) => PlainRecord(WholeObject.vals[p]))
                    => /\ newsOut.t = "return"
                       /\ {newsOut.v[i].title : i \in 1..Len(newsOut.v)}
                              = {Get(WholeObject.vals[p], K.title) :
                                   p \in TitledValues(WholeObject)}
                       /\ Len(newsOut.v) = Cardinality(TitledValues(WholeObject))

\* an object with an empty list under articles and records under results
\* and news has given no article
C27_Witness ==
    /\ GotText /\ WholeObject.t = "obj"
    /\ Get(WholeObject, K.articles) = JArr(<<>>)
    /\ Get(WholeObject, K.results).t = "arr" /\ Get(WholeObject, K.results).items # <<>>
    /\ Get(WholeObject, K.news).t = "arr" /\ Get(WholeObject, K.news).items # <<>>
    /\ newsOut = Succeeded(<<>>)

\* records under both articles and results: the one under articles came back
C27_WitnessBoth ==
    /\ GotText /\ WholeObject.t = "obj"
    /\ Get(WholeObject, K.articles) = JArr(<<Record(1)>>)
    /\ Get(WholeObject, K.results) = JArr(<<Record(2)>>)
    /\ newsOut.t = "return" /\ TitlesOf(newsOut.v) = <<JStr(<<"A">>)>>

\* no list under articles: the titled values came back, a list among the
\* values and a value without a title did not
C27_WitnessValues ==
    /\ GotText /\ WholeObject.t = "obj"
    /\ Get(WholeObject, K.articles).t = "str"
    /\ Get(WholeObject, <<"k", "2">>) = JNum(7)
    /\ Get(WholeObject, <<"k", "3">>).t = "arr"
    /\ newsOut.t = "return" /\ Len(newsOut.v) = 2



\* C29: the length bounds of the strict sanitizer hold for what it returns:
\* every query it accepts comes back between 2 and 500 characters long, and
\* every query searchNews sends to the provider is between 2 and 500
\* characters long.
C29_OutputWithinBounds ==
    /\ (Applied("sanitizeInput") /\ textOut.t = "return")
          => (Len(textOut.v) >= MinQueryLength /\ Len(textOut.v) <= MaxQueryLength)
    /\ NewsCalled =>
          \A i \in 1..Len(calls) :
              (Len(calls[i].input) >= MinQueryLength /\ Len(calls[i].input) <= MaxQueryLength)

\* the provider was asked about an empty query
C29_EmptyQuerySent == NewsCalled /\ calls # <<>> /\ calls[1].input = <<>>

\* an accepted query of 500 characters came back longer
C29_LongerThanLimit ==
    /\ Applied("sanitizeInput") /\ textOut.t = "return"
    /\ Len(textIn.text.s) = MaxQueryLength /\ Len(textOut.v) > MaxQueryLength



\* C30: for every non-empty payload that parses as JSON, whatever the types
\* of the list entries and of the field values, searchNews returns an
\* article list and does not fail.
C30_TypedPayloadsNeverFail ==
    (GotText /\ JSONParse(PayloadText).ok) => newsOut.t = "return"

\* a list with a null entry made searchNews fail
C30_NullEntryFails ==
    /\ GotText /\ WholeObject.t = "obj"
    /\ Get(WholeObject, K.articles) = JArr(<<Record(1), JNull>>)
    /\ newsOut.t = "throw"
    /\ Includes(newsOut.error.message, "Cannot read properties of ")

\* a record whose summary is a number made searchNews fail
C30_NumberSummaryFails ==
    /\ GotText /\ WholeObject.t = "obj"
    /\ Get(WholeObject, K.articles).t = "arr"
    /\ Len(Get(WholeObject, K.articles).items) = 2
    /\ Get(Get(WholeObject, K.articles).items[1], K.summary) = JNum(7)
    /\ newsOut.t = "throw"

\* entries that are numbers or strings, and a title that is a number, came
\* back as articles
C30_OtherTypesReturn ==
    /\ GotText /\ WholeObject.t = "obj"
    /\ Get(WholeObject, K.articles).t = "arr"
    /\ Len(Get(WholeObject, K.articles).items) = 2
    /\ \/ Get(WholeObject, K.articles).items[2] \in {JNum(7), JStr(<<"x">>), JBool(TRUE)}
       \/ Get(Get(WholeObject, K.articles).items[1], K.title) = JNum(7)
    /\ newsOut.t = "return" /\ Len(newsOut.v) = 2



(***************************************************************************)
(* Properties of the handlers that write embeddings (checked under         *)
(* SpecStore).                                                             *)
(***************************************************************************)
\* the request was answered by a handler whose embedding generation failed
GenerationFailed ==
    /\ res.op \in {"createPost", "updatePost", "register", "googleAuth", "updateCurrentUser"}
    /\ res.generated = "throw"

\* the document the request asks for is one the schema accepts: a content of
\* at most 1000 characters, a username of 3 to 30 characters that no other
\* user has
Storable ==
    IF res.op \in {"createPost", "updatePost"} THEN Len(res.req.content) <= MaxContent
    ELSE IF res.op \in {"register", "updateCurrentUser"}
    THEN /\ Len(Trim(res.req.username)) >= MinUsername
         /\ Len(Trim(res.req.username)) <= MaxUsername
    ELSE LET name == IF res.req.name # <<>> THEN res.req.name ELSE BeforeAt(res.req.email)
         IN  /\ Len(name) >= MinUsername /\ Len(name) <= MaxUsername
             /\ \A i \in 1..Len(users) :
                   users[i].username = name => users[i].googleId = res.req.sub

\* the entity of the answered request is in the store as the request put it
Persisted ==
    IF res.op = "createPost"
    THEN /\ posts # <<>>
         /\ posts[Len(posts)].content = res.req.content
         /\ posts[Len(posts)].userId = res.req.userId
         /\ posts[Len(posts)].embedding.isNull
    ELSE IF res.op = "updatePost"
    THEN \E i \in 1..Len(posts) : posts[i].id = res.req.id /\ posts[i].content = res.req.content
    ELSE IF res.op = "register"
    THEN /\ users # <<>>
         /\ users[Len(users)].username = Trim(res.req.username)
         /\ users[Len(users)].embedding.isNull
    ELSE IF res.op = "googleAuth"
    THEN /\ users # <<>>
         /\ users[Len(users)].googleId = res.req.sub
         /\ users[Len(users)].embedding.isNull
    ELSE \E i \in 1..Len(users) :
            users[i].id = res.req.userId /\ users[i].username = res.req.username

\* the ids of the documents of a collection that have no vector
WithoutVector(coll) == {coll[i].id : i \in {j \in 1..Len(coll) : coll[j].embedding.isNull}}

\* C26: when the embedding generation fails in createPost, register,
\* googleAuth (sign-up), updatePost or updateCurrentUser, the request is
\* answered with its success status (201 for the two creations with a
\* body, 200 otherwise) and the entity is in the store; a created entity is
\* stored with a null embedding, and no later search of posts or users
\* returns an entity whose embedding is null.
C26_EmbeddingFailureTolerated ==
    /\ (GenerationFailed /\ Storable) =>
          /\ res.status = IF res.op \in {"createPost", "register"} THEN 201 ELSE 200
          /\ Persisted
    /\ (res.op = "posts" /\ res.status = 200) =>
          \A i \in 1..Len(res.results) : res.results[i].id \notin WithoutVector(posts)
    /\ (res.op = "users" /\ res.status = 200) =>
          \A i \in 1..Len(res.results) : res.results[i].id \notin WithoutVector(users)

\* a post created while the generation failed is in the store without a
\* vector, and a later search of posts has returned another post and not it
C26_Witness ==
    /\ res.op = "posts" /\ res.status = 200
    /\ Len(posts) = 2 /\ posts[2].embedding.isNull /\ ~posts[1].embedding.isNull
    /\ Len(res.results) = 1 /\ res.results[1].id = 1

\* each of the five handlers has answered after a failed generation
C26_WitnessCreatePost == GenerationFailed /\ res.op = "createPost" /\ res.status = 201
C26_WitnessUpdatePost == GenerationFailed /\ res.op = "updatePost" /\ res.status = 200
C26_WitnessRegister == GenerationFailed /\ res.op = "register" /\ res.status = 201
C26_WitnessGoogle == GenerationFailed /\ res.op = "googleAuth" /\ res.status = 200
C26_WitnessUsername == GenerationFailed /\ res.op = "updateCurrentUser" /\ res.status = 200
C26_WitnessUserSkipped ==
    /\ res.op = "users" /\ res.status = 200
    /\ Len(users) = 2 /\ users[2].embedding.isNull /\ Len(res.results) = 1


\* C28: every stored embedding was generated from the current text of its
\* entity: a post's from its content and the current username of its
\* author, a user's from the current username and email.
C28_EmbeddingMatchesText ==
    /\ \A i \in 1..Len(posts) :
          ~posts[i].embedding.isNull =>
              posts[i].embeddedText = PostText(posts[i].content, UsernameOf(posts[i].userId))
    /\ \A i \in 1..Len(users) :
          ~users[i].embedding.isNull =>
              users[i].embeddedText = UserText(users[i].username, users[i].email)

\* a post whose content was replaced while the generation failed keeps the
\* vector of the content it had
C28_StalePost ==
    /\ res.op = "updatePost" /\ res.status = 200 /\ res.generated = "throw"
    /\ \E i \in 1..Len(posts) :
          /\ posts[i].id = res.req.id /\ posts[i].content = res.req.content
          /\ ~posts[i].embedding.isNull
          /\ posts[i].embeddedText # PostText(posts[i].content, UsernameOf(posts[i].userId))

\* a user renamed while the generation failed keeps the vector of the old name
C28_StaleUser ==
    /\ res.op = "updateCurrentUser" /\ res.status = 200 /\ res.generated = "throw"
    /\ \E i \in 1..Len(users) :
          /\ users[i].id = res.req.userId /\ ~users[i].embedding.isNull
          /\ users[i].embeddedText # UserText(users[i].username, users[i].email)

\* a user was renamed and the generation succeeded: her post keeps the
\* vector generated with the old author name
C28_StaleAuthor ==
    /\ res.op = "updateCurrentUser" /\ res.status = 200 /\ res.generated = "return"
    /\ \E i \in 1..Len(posts) :
          /\ posts[i].userId = res.req.userId /\ ~posts[i].embedding.isNull
          /\ posts[i].embeddedText # PostText(posts[i].content, UsernameOf(posts[i].userId))

====
